---- MODULE Spec2Model ----
(***************************************************************************)
(* A model of the scoring, recommendation, ROI, stack-building and chat    *)
(* dispatch code of the AI tools directory.                                *)
(*                                                                         *)
(* Conventions.  A JavaScript string is a sequence of one-character        *)
(* strings, so that includes(), toLowerCase(), trim() and the regular      *)
(* expressions are computed character by character.  A JavaScript number   *)
(* that is a fraction is kept as an integer in a named unit (cents,        *)
(* tenths, thousandths, 1/100000): the arithmetic is exact where the       *)
(* program's is IEEE double arithmetic; where the two differ on the values *)
(* the program can produce, the definition says so.                        *)
(***************************************************************************)
EXTENDS Integers, Sequences, FiniteSets, TLC

VARIABLES
    catalog,      \* the ordered list of Tool records exported by @/data/tools
    importFails,  \* whether the load of the catalog (import, getTools) rejects
    imports,      \* how many times the catalog was loaded
    pricing,      \* extractPrice: the pricing string handed in
    price,        \* extractPrice: per class, what its copy returned, in cents
    tool,         \* calculateToolScore: the Tool scored
    context,      \* the RecommendationContext of the call
    scored,       \* calculateToolScore: the RecommendationScore returned
    prevContext,  \* the context of the call before the last one
    prevScored,   \* the RecommendationScore of the call before the last one
    limit,        \* generateRecommendations: the limit argument
    recs,         \* generateRecommendations: resolved with the list, or rejected
    useCase,      \* generateToolStack: the useCase argument
    budget,       \* generateToolStack: the budget argument, in whole dollars
    stacks,       \* generateToolStack: resolved with the list, or rejected
    investment,   \* calculateROIMetrics / calculatePaybackPeriod: investment, in cents
    returns,      \* calculateROIMetrics / calculatePaybackPeriod: annual returns
    roi,          \* the method called and the value it returned
    message,      \* processUserMessage: the message
    response,     \* processUserMessage: the AIResponse returned
    request,      \* GET /api/tools: the request
    httpResponse, \* GET /api/tools: the response sent
    stackTools,   \* calculateStackROI: the tools argument
    toolROI,      \* calculateToolROI: the ROICalculation returned
    stackROI,     \* calculateStackROI: the StackROICalculation returned
    isSupported,      \* VoiceSearchManager: whether the browser has speech recognition
    isListening,      \* VoiceSearchManager: the isListening field
    recognition,      \* the browser's recognizer: absent, idle, running or ending
    onResultCallback, \* VoiceSearchManager: the stored onResult callback
    onErrorCallback,  \* VoiceSearchManager: the stored onError callback
    invoked,          \* the callbacks the last handler invoked, with their arguments
    handled,          \* the last handler that ran, and whether start() threw in it
    formData,         \* Login: the email and password typed
    errors,           \* Login: the list of error messages shown
    loginIsLoading,   \* Login: the isLoading state of the page
    user,             \* AuthProvider: the user signed in, or null
    route,            \* the path the router is at
    pendingLogins,    \* the calls of login whose fetch has not settled yet
    submitted,        \* Login.handleSubmit: what login resolved with, and the pushes
    expertProfile,    \* verifyExpert: the ExpertProfile handed in
    verification,     \* verifyExpert: the verification resolved with
    component,        \* the chat component mounted
    messages,         \* the chat: the list of messages shown
    inputValue,       \* the chat: the text of the input
    isLoading,        \* the chat: the loading flag
    inFlight,         \* the chat: the sends that wait for their answer
    sends             \* the chat: how many sends were accepted

vars == <<catalog, importFails, imports, pricing, price, tool, context,
          scored, prevContext, prevScored, limit, recs, useCase, budget, stacks,
          investment, returns, roi, message, response, request, httpResponse,
          stackTools, toolROI, stackROI,
          isSupported, isListening, recognition, onResultCallback, onErrorCallback,
          invoked, handled,
          formData, errors, loginIsLoading, user, route, pendingLogins, submitted,
          expertProfile, verification,
          component, messages, inputValue, isLoading, inFlight, sends>>

\* the state of the engines, of the chat dispatch and of the API handler
engineVars == <<catalog, importFails, imports, pricing, price, tool, context,
                scored, prevContext, prevScored, limit, recs, useCase, budget, stacks,
                investment, returns, roi, message, response, request, httpResponse,
                stackTools, toolROI, stackROI>>

\* the state of the voice search manager and of the browser's recognizer
voiceVars == <<isSupported, isListening, recognition, onResultCallback,
               onErrorCallback, invoked, handled>>

\* the state of the login page, of the AuthProvider and of the router
loginVars == <<formData, errors, loginIsLoading, user, route, pendingLogins, submitted>>

\* the call of the expert verification
expertVars == <<expertProfile, verification>>

\* the state of the chat component
chatVars == <<component, messages, inputValue, isLoading, inFlight, sends>>

\* the state of the components of the pages
pageVars == <<voiceVars, loginVars, expertVars, chatVars>>

(***************************************************************************)
(* Bounds of the model.                                                    *)
(***************************************************************************)
MaxPricingLen == 3

MaxCatalog == 3

MaxAmount == 7

MaxPage == 2

\* the length of the longer catalogs
MaxListing == 7

\* the length of the catalogs that hold more tools than are recommended
MaxLongListing == 11

\* the imports of the catalog after which a sequence of calls imports no more
MaxImports == 4

\* the calls of login that can be waiting for the server at once
MaxPendingLogins == 2

\* the sends a chat accepts
MaxSends == 2

\* what a result variable holds before the call that sets it
NoCall == [status |-> "none", value |-> <<>>]

Returned(by, value) == [status |-> by, value |-> value]

(***************************************************************************)
(* Strings.                                                                *)
(***************************************************************************)
DigitChars == <<"0", "1", "2", "3", "4", "5", "6", "7", "8", "9">>

UpperChars == <<"A", "B", "C", "D", "E", "F", "G", "H", "I", "J", "K", "L", "M", "N", "O", "P", "Q", "R", "S", "T", "U", "V", "W", "X", "Y", "Z">>

LowerChars == <<"a", "b", "c", "d", "e", "f", "g", "h", "i", "j", "k", "l", "m", "n", "o", "p", "q", "r", "s", "t", "u", "v", "w", "x", "y", "z">>

Range(q) == {q[i] : i \in 1..Len(q)}

Digits == Range(DigitChars)

IsDigit(c) == c \in Digits

DigitValueOf == [c \in Digits |-> (CHOOSE i \in 1..10 : DigitChars[i] = c) - 1]

DigitValue(c) == DigitValueOf[c]

UpperSet == Range(UpperChars)

UpperToLower == [c \in UpperSet |-> LowerChars[CHOOSE i \in 1..26 : UpperChars[i] = c]]

\* String.prototype.toLowerCase, one character
LowerChar(c) == IF c \in UpperSet THEN UpperToLower[c] ELSE c

\* String.prototype.toLowerCase
toLowerCase(str) == [i \in 1..Len(str) |-> LowerChar(str[i])]

\* String.prototype.includes
includes(str, sub) ==
    \E i \in 0..(Len(str) - Len(sub)) :
        \A k \in 1..Len(sub) : str[i + k] = sub[k]

\* String.prototype.trim (the strings of the model hold no other white space than " ")
trim(str) ==
    IF \A i \in 1..Len(str) : str[i] = " "
    THEN <<>>
    ELSE LET first == CHOOSE i \in 1..Len(str) :
                          str[i] # " " /\ \A k \in 1..(i - 1) : str[k] = " "
             last  == CHOOSE i \in 1..Len(str) :
                          str[i] # " " /\ \A k \in (i + 1)..Len(str) : str[k] = " "
         IN  SubSeq(str, first, last)

\* Array.prototype.join(' ')
RECURSIVE joinSpace(_)
joinSpace(strs) ==
    IF Len(strs) = 0 THEN <<>>
    ELSE IF Len(strs) = 1 THEN strs[1]
    ELSE strs[1] \o <<" ">> \o joinSpace(Tail(strs))

\* All strings over an alphabet of at most n characters
StringsUpTo(alphabet, n) == UNION {[1..k -> alphabet] : k \in 0..n}

(***************************************************************************)
(* extractPrice: pricing.match(/\$?(\d+(?:\.\d{2})?)/), then parseFloat of *)
(* the group, or 0 without a match.  The value is in cents.                *)
(***************************************************************************)
\* the regular expression matches at position i
PriceMatchesAt(str, i) ==
    \/ IsDigit(str[i])
    \/ str[i] = "$" /\ i + 1 <= Len(str) /\ IsDigit(str[i + 1])

\* the captured group (\d+(?:\.\d{2})?) of the leftmost match
PriceGroup(str) ==
    LET at     == CHOOSE i \in 1..Len(str) :
                      PriceMatchesAt(str, i) /\ \A k \in 1..(i - 1) : ~PriceMatchesAt(str, k)
        from   == IF str[at] = "$" THEN at + 1 ELSE at
        runEnd == CHOOSE j \in from..Len(str) :
                      /\ \A k \in from..j : IsDigit(str[k])
                      /\ j + 1 <= Len(str) => ~IsDigit(str[j + 1])
        cents  == /\ runEnd + 3 <= Len(str)
                  /\ str[runEnd + 1] = "."
                  /\ IsDigit(str[runEnd + 2])
                  /\ IsDigit(str[runEnd + 3])
    IN  SubSeq(str, from, IF cents THEN runEnd + 3 ELSE runEnd)

RECURSIVE DigitsValue(_)
DigitsValue(digits) ==
    IF Len(digits) = 0 THEN 0
    ELSE 10 * DigitsValue(SubSeq(digits, 1, Len(digits) - 1)) + DigitValue(digits[Len(digits)])

\* parseFloat of a string of the shape \d+(\.\d{2})?, in cents
parseFloat(group) ==
    IF Len(group) >= 3 /\ group[Len(group) - 2] = "."
    THEN 100 * DigitsValue(SubSeq(group, 1, Len(group) - 3))
             + DigitsValue(SubSeq(group, Len(group) - 1, Len(group)))
    ELSE 100 * DigitsValue(group)

\* pricing.match(...) is not null
PriceMatches(str) == \E i \in 1..Len(str) : PriceMatchesAt(str, i)

\* Variant of extractPrice that leaves out the test of the match and reads the
\* group of a string the expression does not match as one dollar
extractPriceUnguarded(str) ==
    IF PriceMatches(str) THEN parseFloat(PriceGroup(str)) ELSE 100

\* AIRecommendationEngine.extractPrice
extractPrice(str) ==
    IF PriceMatches(str) THEN parseFloat(PriceGroup(str)) ELSE 0

\* ROICalculator.extractPrice
ROICalculator_extractPrice(str) ==
    IF PriceMatches(str) THEN parseFloat(PriceGroup(str)) ELSE 0

\* ToolStackBuilder.extractPrice
ToolStackBuilder_extractPrice(str) ==
    IF PriceMatches(str) THEN parseFloat(PriceGroup(str)) ELSE 0

(***************************************************************************)
(* The pricing strings the model hands to extractPrice.                    *)
(***************************************************************************)
PricingAlphabet == {"$", "4", "9", ".", "F", " "}

Free == <<"F", "r", "e", "e">>

Freemium == <<"F", "r", "e", "e", "m", "i", "u", "m">>

ContactUs == <<"C", "o", "n", "t", "a", "c", "t", " ", "u", "s">>

Usd49Month == <<"$", "4", "9", "/", "m", "o", "n", "t", "h">>

Usd999 == <<"$", "9", ".", "9", "9">>

From10 == <<"F", "r", "o", "m", " ", "$", "1", "0", "/", "m", "o">>

Usd1000 == <<"$", "1", ",", "0", "0", "0", "/", "y", "e", "a", "r">>

NamedPricings == {Free, Freemium, ContactUs, Usd49Month, Usd999, From10, Usd1000}

PricingInputs == StringsUpTo(PricingAlphabet, MaxPricingLen) \cup NamedPricings

(***************************************************************************)
(* Tool records.  The optional rating is a list: empty without a rating,   *)
(* else the rating in tenths (<<46>> is 4.6).                              *)
(***************************************************************************)
NoRating == <<>>

\* a Tool without the optional subcategory: no substring is found in it
NoSubcategory == <<>>

PerfectTool ==
    [id |-> "codepilot", name |-> <<"C", "o", "d", "e", "P", "i", "l", "o", "t">>, category |-> <<"C", "o", "d", "i", "n", "g">>, subcategory |-> <<"C", "o", "d", "e", " ", "A", "s", "s", "i", "s", "t", "a", "n", "t", "s">>,
     description |-> <<"a", "d", "v", "a", "n", "c", "e", "d", " ", "e", "n", "t", "e", "r", "p", "r", "i", "s", "e", " ", "s", "o", "f", "t", "w", "a", "r", "e", " ", "f", "o", "r", " ", "d", "e", "v", "e", "l", "o", "p", "m", "e", "n", "t", ",", " ", "c", "o", "d", "i", "n", "g", ",", " ", "p", "r", "o", "g", "r", "a", "m", "m", "i", "n", "g", " ", "a", "n", "d", " ", "t", "e", "c", "h", " ", "t", "e", "a", "m", "s">>,
     pricing |-> Usd49Month, tags |-> <<<<"c", "o", "d", "i", "n", "g">>, <<"A", "P", "I">>, <<"a", "d", "v", "a", "n", "c", "e", "d">>>>, rating |-> <<50>>]

FreeTool ==
    [id |-> "adgenie", name |-> <<"A", "d", "G", "e", "n", "i", "e">>, category |-> <<"M", "a", "r", "k", "e", "t", "i", "n", "g">>, subcategory |-> NoSubcategory,
     description |-> <<"s", "i", "m", "p", "l", "e", " ", "m", "a", "r", "k", "e", "t", "i", "n", "g", " ", "c", "a", "m", "p", "a", "i", "g", "n", " ", "h", "e", "l", "p", "e", "r">>,
     pricing |-> Free, tags |-> <<<<"m", "a", "r", "k", "e", "t", "i", "n", "g">>, <<"s", "o", "c", "i", "a", "l", " ", "m", "e", "d", "i", "a">>>>, rating |-> <<46>>]

FreeToolTwin ==
    [id |-> "adwizard", name |-> <<"A", "d", "W", "i", "z", "a", "r", "d">>, category |-> <<"M", "a", "r", "k", "e", "t", "i", "n", "g">>, subcategory |-> NoSubcategory,
     description |-> <<"s", "i", "m", "p", "l", "e", " ", "m", "a", "r", "k", "e", "t", "i", "n", "g", " ", "c", "a", "m", "p", "a", "i", "g", "n", " ", "h", "e", "l", "p", "e", "r">>,
     pricing |-> Free, tags |-> <<<<"m", "a", "r", "k", "e", "t", "i", "n", "g">>, <<"s", "o", "c", "i", "a", "l", " ", "m", "e", "d", "i", "a">>>>, rating |-> <<46>>]

QuoteTool ==
    [id |-> "dataforge", name |-> <<"D", "a", "t", "a", "F", "o", "r", "g", "e">>, category |-> <<"D", "a", "t", "a">>, subcategory |-> <<"A", "n", "a", "l", "y", "t", "i", "c", "s">>,
     description |-> <<"c", "o", "m", "p", "l", "e", "x", " ", "e", "n", "t", "e", "r", "p", "r", "i", "s", "e", " ", "a", "n", "a", "l", "y", "t", "i", "c", "s">>,
     pricing |-> ContactUs, tags |-> <<<<"e", "n", "t", "e", "r", "p", "r", "i", "s", "e">>, <<"a", "d", "v", "a", "n", "c", "e", "d">>, <<"i", "n", "t", "e", "g", "r", "a", "t", "i", "o", "n">>>>,
     rating |-> NoRating]

CheapTool ==
    [id |-> "learnbot", name |-> <<"L", "e", "a", "r", "n", "B", "o", "t">>, category |-> <<"E", "d", "u", "c", "a", "t", "i", "o", "n">>, subcategory |-> NoSubcategory,
     description |-> <<"a", " ", "l", "e", "a", "r", "n", "i", "n", "g", " ", "c", "o", "u", "r", "s", "e", " ", "f", "o", "r", " ", "e", "v", "e", "r", "y", " ", "s", "t", "u", "d", "e", "n", "t">>,
     pricing |-> Usd999, tags |-> <<<<"e", "d", "u", "c", "a", "t", "i", "o", "n">>>>, rating |-> <<36>>]

ToolPool == {PerfectTool, FreeTool, FreeToolTwin, QuoteTool, CheapTool}

\* The catalogs of the model: Tool records in any order, each identified by its id
Catalogs ==
    {c \in UNION {[1..n -> ToolPool] : n \in 0..MaxCatalog} :
        \A i, j \in 1..Len(c) : c[i].id = c[j].id => i = j}

\* Longer catalogs: MaxListing entries, entry i the i-th marketing tool or the
\* i-th education tool, each with an id and a name of its own
ListingIds ==
    <<"tool-1", "tool-2", "tool-3", "tool-4", "tool-5", "tool-6", "tool-7", "tool-8",
      "tool-9", "tool-a", "tool-b", "tool-c", "tool-d">>

ListingMarks == <<"1", "2", "3", "4", "5", "6", "7", "8", "9", "a", "b", "c", "d">>

listed(t, i) == [t EXCEPT !.id = ListingIds[i], !.name = @ \o <<ListingMarks[i]>>]

Listings ==
    {[i \in 1..MaxListing |-> listed(kinds[i], i)] : kinds \in [1..MaxListing -> {FreeTool, CheapTool}]}

\* Catalogs of MaxLongListing entries: marketing tools up to entry k, education
\* tools after it
LongListings ==
    {[i \in 1..MaxLongListing |-> listed(IF i <= k THEN FreeTool ELSE CheapTool, i)] :
        k \in 0..MaxLongListing}

\* every Tool record of the model
KnownTools ==
    ToolPool \cup {listed(t, i) : t \in {FreeTool, CheapTool}, i \in 1..MaxLongListing}

(***************************************************************************)
(* UserProfile and RecommendationContext.  budget is in whole dollars, as  *)
(* the callers give it; recentInteractions is the length of the list (the  *)
(* code reads nothing else of it).                                         *)
(***************************************************************************)
Technology == <<"T", "e", "c", "h", "n", "o", "l", "o", "g", "y">>

Finance == <<"F", "i", "n", "a", "n", "c", "e">>

Marketing == <<"M", "a", "r", "k", "e", "t", "i", "n", "g">>

Healthcare == <<"H", "e", "a", "l", "t", "h", "c", "a", "r", "e">>

Education == <<"E", "d", "u", "c", "a", "t", "i", "o", "n">>

Ecommerce == <<"E", "-", "c", "o", "m", "m", "e", "r", "c", "e">>

Retail == <<"R", "e", "t", "a", "i", "l">>

Industries == {Technology, Education, Retail}

Experiences == {"beginner", "intermediate", "expert"}

TeamSizes == {"solo", "enterprise"}

MonthlyBudgets == {10, 60, 100, 500}

GoalLists ==
    {<<>>, <<<<"C", "o", "d", "i", "n", "g">>>>, <<<<"m", "a", "r", "k", "e", "t", "i", "n", "g">>, <<"c", "a", "m", "p", "a", "i", "g", "n">>, <<"h", "e", "l", "p", "e", "r">>>>,
     <<<<"m", "a", "r", "k", "e", "t", "i", "n", "g">>, <<"s", "o", "l", "u", "t", "i", "o", "n">>, <<"e", "s", "s", "e", "n", "t", "i", "a", "l">>>>}

IntegrationNeeds == {2, 9}

UserProfiles ==
    {[industry |-> i, experience |-> e, teamSize |-> s,
      budget |-> [monthly |-> b, annual |-> 12 * b],
      primaryGoals |-> g, toolPreferences |-> [integrationNeeds |-> n]] :
        i \in Industries, e \in Experiences, s \in TeamSizes,
        b \in MonthlyBudgets, g \in GoalLists, n \in IntegrationNeeds}

contextOf(profile) == [userProfile |-> profile, recentInteractions |-> 0]

Contexts ==
    {[userProfile |-> p, recentInteractions |-> r] : p \in UserProfiles, r \in {0}}

\* the profiles of the ROI calls: the goals and the integration needs are not read
ROIProfiles ==
    {p \in UserProfiles : p.primaryGoals = <<>> /\ p.toolPreferences.integrationNeeds = 2}

\* the profiles of the calls that rank a whole catalog
RankingProfiles ==
    {p \in UserProfiles :
        /\ p.industry \in {Technology, Retail}
        /\ p.teamSize = "enterprise"
        /\ p.budget.monthly \in {10, 500}
        /\ p.primaryGoals \in {<<<<"C", "o", "d", "i", "n", "g">>>>, <<<<"m", "a", "r", "k", "e", "t", "i", "n", "g">>, <<"c", "a", "m", "p", "a", "i", "g", "n">>, <<"h", "e", "l", "p", "e", "r">>>>}
        /\ p.toolPreferences.integrationNeeds = 9}

\* the profiles of the calls that build stacks
StackProfiles ==
    {p \in UserProfiles :
        /\ p.industry = Technology
        /\ p.teamSize = "enterprise"
        /\ p.budget.monthly \in {10, 500}
        /\ p.primaryGoals = <<<<"m", "a", "r", "k", "e", "t", "i", "n", "g">>, <<"s", "o", "l", "u", "t", "i", "o", "n">>, <<"e", "s", "s", "e", "n", "t", "i", "a", "l">>>>
        /\ p.toolPreferences.integrationNeeds = 9}

(***************************************************************************)
(* AIRecommendationEngine.  Factors are in thousandths, the aggregate      *)
(* score in 1/100000.                                                      *)
(***************************************************************************)
\* F at the value of v: v is evaluated once, however often F reads it
With(v, F(_)) == CHOOSE r \in {F(x) : x \in {v}} : TRUE

\* an array as a tuple of values
Array(f) == SubSeq(f, 1, Len(f))

Min(a, b) == IF a <= b THEN a ELSE b

Max(a, b) == IF a >= b THEN a ELSE b

Abs(a) == IF a >= 0 THEN a ELSE -a

\* Math.round(n / d) for d > 0: the nearest integer, a half rounded up
RoundDiv(n, d) == (2 * n + d) \div (2 * d)

\* Array.prototype.some over the tags
someTag(t, P(_)) == \E i \in 1..Len(t.tags) : P(t.tags[i])

\* (tool.rating || 0), in tenths
ratingOrZero(t) == IF t.rating = NoRating THEN 0 ELSE t.rating[1]

\* the number of the five indicators that are true: the result is this over 5
estimateToolComplexity(t) ==
    LET indicators ==
            << includes(t.description, <<"e", "n", "t", "e", "r", "p", "r", "i", "s", "e">>),
               includes(t.description, <<"a", "d", "v", "a", "n", "c", "e", "d">>),
               includes(t.description, <<"c", "o", "m", "p", "l", "e", "x">>),
               someTag(t, LAMBDA tag : includes(tag, <<"e", "n", "t", "e", "r", "p", "r", "i", "s", "e">>)),
               someTag(t, LAMBDA tag : includes(tag, <<"a", "d", "v", "a", "n", "c", "e", "d">>)) >>
    IN  Cardinality({i \in 1..5 : indicators[i]})

getIndustryKeywords(industry) ==
    CASE industry = Technology -> <<<<"s", "o", "f", "t", "w", "a", "r", "e">>, <<"t", "e", "c", "h">>, <<"d", "e", "v", "e", "l", "o", "p", "m", "e", "n", "t">>, <<"c", "o", "d", "i", "n", "g">>, <<"p", "r", "o", "g", "r", "a", "m", "m", "i", "n", "g">>>>
      [] industry = Marketing  -> <<<<"m", "a", "r", "k", "e", "t", "i", "n", "g">>, <<"a", "d", "v", "e", "r", "t", "i", "s", "i", "n", "g">>, <<"s", "o", "c", "i", "a", "l", " ", "m", "e", "d", "i", "a">>, <<"c", "a", "m", "p", "a", "i", "g", "n">>, <<"b", "r", "a", "n", "d">>>>
      [] industry = Finance    -> <<<<"f", "i", "n", "a", "n", "c", "e">>, <<"a", "c", "c", "o", "u", "n", "t", "i", "n", "g">>, <<"b", "u", "d", "g", "e", "t", "i", "n", "g">>, <<"i", "n", "v", "e", "s", "t", "m", "e", "n", "t">>, <<"b", "a", "n", "k", "i", "n", "g">>>>
      [] industry = Healthcare -> <<<<"h", "e", "a", "l", "t", "h">>, <<"m", "e", "d", "i", "c", "a", "l">>, <<"p", "a", "t", "i", "e", "n", "t">>, <<"c", "l", "i", "n", "i", "c", "a", "l">>, <<"d", "i", "a", "g", "n", "o", "s", "i", "s">>>>
      [] industry = Education  -> <<<<"e", "d", "u", "c", "a", "t", "i", "o", "n">>, <<"l", "e", "a", "r", "n", "i", "n", "g">>, <<"t", "e", "a", "c", "h", "i", "n", "g">>, <<"s", "t", "u", "d", "e", "n", "t">>, <<"c", "o", "u", "r", "s", "e">>>>
      [] industry = Ecommerce  -> <<<<"e", "c", "o", "m", "m", "e", "r", "c", "e">>, <<"r", "e", "t", "a", "i", "l">>, <<"s", "a", "l", "e", "s">>, <<"i", "n", "v", "e", "n", "t", "o", "r", "y">>, <<"s", "h", "i", "p", "p", "i", "n", "g">>>>
      [] OTHER                 -> <<toLowerCase(industry)>>

\* in tenths
getIndustryROIMultiplier(industry) ==
    CASE industry = Technology -> 15
      [] industry = Finance    -> 13
      [] industry = Marketing  -> 12
      [] industry = Healthcare -> 11
      [] industry = Education  -> 9
      [] industry = Ecommerce  -> 14
      [] OTHER                 -> 10

\* in tenths
getTeamSizeMultiplier(teamSize) ==
    CASE teamSize = "solo"       -> 8
      [] teamSize = "small"      -> 10
      [] teamSize = "medium"     -> 12
      [] teamSize = "large"      -> 14
      [] teamSize = "enterprise" -> 16
      [] OTHER                   -> 10

\* Variant of calculateBudgetMatch that tests the thresholds in the opposite
\* order, so that every price within the budget is answered by the first test
calculateBudgetMatchWidestFirst(t, profile) ==
    LET toolPrice  == extractPrice(t.pricing)
        userBudget == 100 * profile.budget.monthly
    IN  IF toolPrice = 0 THEN 1000
        ELSE IF toolPrice <= userBudget THEN 600
        ELSE IF 10 * toolPrice <= 6 * userBudget THEN 800
        ELSE IF 10 * toolPrice <= 3 * userBudget THEN 1000
        ELSE 200

calculateBudgetMatch(t, profile) ==
    LET toolPrice  == extractPrice(t.pricing)          \* cents
        userBudget == 100 * profile.budget.monthly     \* cents
    IN  IF toolPrice = 0 THEN 1000
        ELSE IF 10 * toolPrice <= 3 * userBudget THEN 1000
        ELSE IF 10 * toolPrice <= 6 * userBudget THEN 800
        ELSE IF toolPrice <= userBudget THEN 600
        ELSE 200

calculateExperienceMatch(t, profile) ==
    LET userLevel == CASE profile.experience = "beginner"     -> 300
                       [] profile.experience = "intermediate" -> 600
                       [] profile.experience = "expert"       -> 900
        toolComplexity == 200 * estimateToolComplexity(t)
    IN  1000 - Abs(userLevel - toolComplexity)

RECURSIVE alignmentSum(_, _)
alignmentSum(t, goals) ==
    IF Len(goals) = 0 THEN 0
    ELSE LET goalLower == toLowerCase(goals[Len(goals)])
         IN  alignmentSum(t, SubSeq(goals, 1, Len(goals) - 1))
             + (IF someTag(t, LAMBDA tag : includes(toLowerCase(tag), goalLower)) THEN 400 ELSE 0)
             + (IF includes(toLowerCase(t.description), goalLower) THEN 300 ELSE 0)
             + (IF includes(toLowerCase(t.category), goalLower) THEN 300 ELSE 0)

calculateGoalAlignment(t, ctx) ==
    Min(alignmentSum(t, ctx.userProfile.primaryGoals), 1000)

calculateIndustryRelevance(t, profile) ==
    LET industryKeywords == getIndustryKeywords(profile.industry)
        toolText == toLowerCase(t.name \o <<" ">> \o t.description \o <<" ">> \o joinSpace(t.tags))
        found == {i \in 1..Len(industryKeywords) :
                     includes(toolText, toLowerCase(industryKeywords[i]))}
    IN  Min((1000 * Cardinality(found)) \div Len(industryKeywords), 1000)

calculatePopularityScore(t) == 20 * ratingOrZero(t)

calculateROIPotential(t, profile) ==
    5 * getIndustryROIMultiplier(profile.industry) * getTeamSizeMultiplier(profile.teamSize)

\* Variant of calculateLearningCurveScore that scores a mismatch 0.3
calculateLearningCurveScoreLowMismatch(t, profile) ==
    LET experienceLevel == profile.experience
        toolComplexity  == 200 * estimateToolComplexity(t)
    IN  IF experienceLevel = "beginner" /\ toolComplexity < 400 THEN 1000
        ELSE IF experienceLevel = "intermediate" /\ toolComplexity >= 300 /\ toolComplexity <= 700 THEN 1000
        ELSE IF experienceLevel = "expert" /\ toolComplexity > 600 THEN 1000
        ELSE 300

calculateLearningCurveScore(t, profile) ==
    LET experienceLevel == profile.experience
        toolComplexity  == 200 * estimateToolComplexity(t)
    IN  IF experienceLevel = "beginner" /\ toolComplexity < 400 THEN 1000
        ELSE IF experienceLevel = "intermediate" /\ toolComplexity >= 300 /\ toolComplexity <= 700 THEN 1000
        ELSE IF experienceLevel = "expert" /\ toolComplexity > 600 THEN 1000
        ELSE 500

calculateIntegrationScore(t, profile) ==
    LET integrationNeeds == profile.toolPreferences.integrationNeeds
        hasIntegrations  ==
            someTag(t, LAMBDA tag : \/ includes(toLowerCase(tag), <<"a", "p", "i">>)
                                    \/ includes(toLowerCase(tag), <<"i", "n", "t", "e", "g", "r", "a", "t", "i", "o", "n">>)
                                    \/ includes(toLowerCase(tag), <<"z", "a", "p", "i", "e", "r">>))
    IN  IF integrationNeeds > 7 /\ hasIntegrations THEN 1000
        ELSE IF integrationNeeds < 4 /\ ~hasIntegrations THEN 1000
        ELSE 500

FactorNames ==
    <<"budgetMatch", "experienceMatch", "goalAlignment", "industryRelevance",
      "popularityScore", "roiPotential", "learningCurve", "integrationScore">>

\* Tables of the factors that read the strings of a tool: the entry at a tool and
\* at the one field of the profile the factor reads is the factor's value for the
\* tool and any profile with that field.  A table is evaluated once.
budgetMatchOf ==
    [t \in KnownTools |-> [b \in MonthlyBudgets |->
        calculateBudgetMatch(t, [budget |-> [monthly |-> b]])]]

experienceMatchOf ==
    [t \in KnownTools |-> [e \in Experiences |->
        calculateExperienceMatch(t, [experience |-> e])]]

goalAlignmentOf ==
    [t \in KnownTools |-> [g \in GoalLists |->
        calculateGoalAlignment(t, [userProfile |-> [primaryGoals |-> g]])]]

industryRelevanceOf ==
    [t \in KnownTools |-> [i \in Industries |->
        calculateIndustryRelevance(t, [industry |-> i])]]

learningCurveOf ==
    [t \in KnownTools |-> [e \in Experiences |->
        calculateLearningCurveScore(t, [experience |-> e])]]

integrationScoreOf ==
    [t \in KnownTools |-> [n \in IntegrationNeeds |->
        calculateIntegrationScore(t, [toolPreferences |-> [integrationNeeds |-> n]])]]

\* the factors object of calculateToolScore
calculateFactors(t, ctx) ==
    LET profile == ctx.userProfile
    IN  [budgetMatch       |-> budgetMatchOf[t][profile.budget.monthly],
         experienceMatch   |-> experienceMatchOf[t][profile.experience],
         goalAlignment     |-> goalAlignmentOf[t][profile.primaryGoals],
         industryRelevance |-> industryRelevanceOf[t][profile.industry],
         popularityScore   |-> calculatePopularityScore(t),
         roiPotential      |-> calculateROIPotential(t, profile),
         learningCurve     |-> learningCurveOf[t][profile.experience],
         integrationScore  |-> integrationScoreOf[t][profile.toolPreferences.integrationNeeds]]

\* in hundredths
weights ==
    [budgetMatch |-> 15, experienceMatch |-> 12, goalAlignment |-> 20,
     industryRelevance |-> 10, popularityScore |-> 8, roiPotential |-> 15,
     learningCurve |-> 10, integrationScore |-> 10]

\* Object.entries(factors).reduce(...): the weighted sum, in 1/100000
RECURSIVE weightedSum(_, _)
weightedSum(factors, n) ==
    IF n = 0 THEN 0
    ELSE weightedSum(factors, n - 1) + factors[FactorNames[n]] * weights[FactorNames[n]]

generateReasoning(factors) ==
    SelectSeq(<<"budgetMatch", "experienceMatch", "goalAlignment", "industryRelevance", "roiPotential">>,
              LAMBDA f : IF f \in {"budgetMatch", "experienceMatch"}
                         THEN factors[f] > 800 ELSE factors[f] > 700)

\* tools of the same category rated 4.0 or more, the first three, by id
findAlternatives(t, tools) ==
    LET similar == SelectSeq(tools, LAMBDA o : /\ o.id # t.id
                                               /\ o.category = t.category
                                               /\ o.rating # NoRating
                                               /\ o.rating[1] >= 40)
    IN  SubSeq(similar, 1, Min(3, Len(similar)))

estimateROI(t, profile) ==
    RoundDiv(150 * getIndustryROIMultiplier(profile.industry)
                 * getTeamSizeMultiplier(profile.teamSize), 100)

\* Math.round(baseDays * 0.7) and Math.round(baseDays * 1.5) on the doubles the
\* program computes: 45 * 0.7 is 31.499999999999996 and rounds to 31
estimateTimeToValue(t, profile) ==
    LET complexity == 200 * estimateToolComplexity(t)
        baseDays   == IF complexity < 300 THEN 7 ELSE IF complexity < 600 THEN 14 ELSE 45
    IN  CASE profile.experience = "expert" ->
                 (CASE baseDays = 7 -> 5 [] baseDays = 14 -> 10 [] baseDays = 45 -> 31)
          [] profile.experience = "beginner" -> RoundDiv(15 * baseDays, 10)
          [] OTHER -> baseDays

\* Math.min(averageScore * (0.7 + 0.3 * dataQuality), 1.0), in 1/800000
calculateConfidence(factors, ctx) ==
    LET total == factors.budgetMatch + factors.experienceMatch + factors.goalAlignment
                 + factors.industryRelevance + factors.popularityScore
                 + factors.roiPotential + factors.learningCurve + factors.integrationScore
        dataQuality10 == Min(ctx.recentInteractions, 10)
    IN  Min(total * (70 + 3 * dataQuality10), 800000)

timeToValueOf ==
    [t \in KnownTools |-> [e \in Experiences |-> estimateTimeToValue(t, [experience |-> e])]]

calculateToolScore(t, ctx, tools) ==
    LET factors == calculateFactors(t, ctx)
    IN  [tool         |-> t,
         score        |-> weightedSum(factors, 8),
         factors      |-> factors,
         reasoning    |-> generateReasoning(factors),
         alternatives |-> findAlternatives(t, tools),
         estimatedROI |-> estimateROI(t, ctx.userProfile),
         timeToValue  |-> timeToValueOf[t][ctx.userProfile.experience],
         confidence   |-> calculateConfidence(factors, ctx)]

\* calculateLearningCurve(score)
calculateLearningCurve(score) ==
    IF score > 700 THEN "easy" ELSE IF score > 400 THEN "medium" ELSE "hard"

generateRecommendationContext(scoredTool) ==
    SelectSeq(<<"budgetMatch", "experienceMatch", "goalAlignment">>,
              LAMBDA f : IF f = "goalAlignment"
                         THEN scoredTool.factors[f] > 700 ELSE scoredTool.factors[f] > 800)

\* Array.prototype.sort(compare): the elements in the order of compare, elements
\* that compare equal keeping their order (the sort is stable since ES2019)
sort(arr, compare(_, _)) ==
    LET n == Len(arr)
        before(j, i) == \/ compare(arr[j], arr[i]) < 0
                        \/ compare(arr[j], arr[i]) = 0 /\ j < i
        rank(i) == 1 + Cardinality({j \in 1..n : before(j, i)})
    IN  [k \in 1..n |-> arr[CHOOSE i \in 1..n : rank(i) = k]]

\* Variant of slice that takes the element at index end as well
sliceThrough(arr, end) ==
    LET stop == IF end < 0 THEN Max(Len(arr) + end + 1, 0) ELSE Min(end + 1, Len(arr))
    IN  SubSeq(arr, 1, stop)

\* Array.prototype.slice(0, end), end an integer: a negative end counts from the end
slice(arr, end) ==
    LET stop == IF end < 0 THEN Max(Len(arr) + end, 0) ELSE Min(end, Len(arr))
    IN  SubSeq(arr, 1, stop)

\* Variant of the comparator that sorts ascending
compareScoreAscending(a, b) == a.score - b.score

\* the comparator of generateRecommendations: (a, b) => b.score - a.score
compareScore(a, b) == b.score - a.score

toRecommendation(scoredTool) ==
    [toolId         |-> scoredTool.tool.id,
     confidence     |-> scoredTool.confidence,
     reasoning      |-> scoredTool.reasoning,
     alternatives   |-> [i \in 1..Len(scoredTool.alternatives) |-> scoredTool.alternatives[i].id],
     estimatedROI   |-> scoredTool.estimatedROI,
     timeToValue    |-> scoredTool.timeToValue,
     learningCurve  |-> calculateLearningCurve(scoredTool.factors.learningCurve),
     recommendedFor |-> generateRecommendationContext(scoredTool)]

\* Variant of generateRecommendations that ranks every scored tool twice
generateRecommendationsRefilled(ctx, lim, tools) ==
    With(Array([i \in 1..Len(tools) |-> calculateToolScore(tools[i], ctx, tools)]),
         LAMBDA scoredTools :
    With(slice(sort(scoredTools \o scoredTools, compareScore), lim),
         LAMBDA topRecommendations :
    Array([i \in 1..Len(topRecommendations) |-> toRecommendation(topRecommendations[i])])))

\* generateRecommendations once the catalog is imported.  The id (Math.random)
\* and the timestamp (new Date) of a recommendation are left out.
generateRecommendations(ctx, lim, tools) ==
    With(Array([i \in 1..Len(tools) |-> calculateToolScore(tools[i], ctx, tools)]),
         LAMBDA scoredTools :
    With(slice(sort(scoredTools, compareScore), lim),
         LAMBDA topRecommendations :
    Array([i \in 1..Len(topRecommendations) |-> toRecommendation(topRecommendations[i])])))

(***************************************************************************)
(* ROICalculator: the ROI metrics.  Amounts are in cents.  A number that   *)
(* need not be an integer is a fraction [num, den]; Infinity is the        *)
(* JavaScript value.                                                       *)
(***************************************************************************)
Infinity == [num |-> 1, den |-> 0]

Frac(n, d) == [num |-> n, den |-> d]

\* Math.round((r / d) * 10^k) for 0 <= r < d, a decimal digit at a time
RECURSIVE roundedDigits(_, _, _)
roundedDigits(r, d, k) ==
    IF k = 0 THEN (IF 2 * r >= d THEN 1 ELSE 0)
    ELSE ((10 * r) \div d) * 10^(k - 1) + roundedDigits((10 * r) % d, d, k - 1)

\* Math.round((n / d) * 10^k) for d > 0
roundTimes(n, d, k) == (n \div d) * 10^k + roundedDigits(n % d, d, k)

\* Math.round(x * 100) / 100 for x = n / d, d > 0
roundToCents(n, d) == Frac(roundTimes(n, d, 2), 100)

\* -investment + returns / Math.pow(1 + 0.1, 1), as a fraction over 11
calculateNPV(inv, ret) == Frac(10 * ret - 11 * inv, 11)

calculateIRR(inv, ret) ==
    IF inv <= 0 \/ ret <= 0 THEN Frac(0, 1) ELSE Frac(ret - inv, inv)

\* percentage, paybackPeriod and internalRateOfReturn in hundredths,
\* netPresentValue in whole dollars
calculateROIMetrics(inv, ret) ==
    LET paybackPeriod == IF ret > 0 THEN Frac(12 * inv, ret) ELSE Infinity
        npv == calculateNPV(inv, ret)
        irr == calculateIRR(inv, ret)
    IN  [percentage           |-> IF inv > 0 THEN Frac(roundTimes(ret - inv, inv, 4), 100)
                                  ELSE Frac(0, 100),
         paybackPeriod        |-> IF paybackPeriod = Infinity THEN Infinity
                                  ELSE roundToCents(paybackPeriod.num, paybackPeriod.den),
         netPresentValue      |-> Frac(RoundDiv(npv.num, 100 * npv.den), 1),
         internalRateOfReturn |-> roundToCents(irr.num, irr.den)]

\* Variant of calculatePaybackPeriod that tests annualReturns === 0 only
calculatePaybackPeriodZeroOnly(inv, annualReturns) ==
    IF annualReturns = 0 THEN Infinity ELSE Frac(12 * inv, annualReturns)

calculatePaybackPeriod(inv, annualReturns) ==
    IF annualReturns <= 0 THEN Infinity ELSE Frac(12 * inv, annualReturns)

Amounts == 0..MaxAmount

AnnualReturns == (-1)..MaxAmount

(***************************************************************************)
(* The doubles of the ROI confidence.  A double d with 2^-5 <= d < 32 is   *)
(* an integer number of 2^-57: it is kept as the four base-2^15 digits of  *)
(* that integer, least significant first, and sums and quotients are       *)
(* rounded to 53 significant bits, a tie to the even neighbour, as IEEE    *)
(* 754 rounds them.                                                        *)
(***************************************************************************)
Limb == 2^15

\* the literals 0, 0.05, 0.1, 0.6, 0.7, 0.8 and 1.0
Double0 == <<0, 0, 0, 0>>

Double0_05 == <<6554, 13107, 26214, 204>>

Double0_1 == <<13108, 26214, 19660, 409>>

Double0_6 == <<13104, 26214, 19660, 2457>>

Double0_7 == <<26208, 19660, 6553, 2867>>

Double0_8 == <<6560, 13107, 26214, 3276>>

Double1 == <<0, 0, 0, 4096>>

\* the digits of a number whose digits were added to or multiplied
carried(d) ==
    LET s2 == d[2] + (d[1] \div Limb)
        s3 == d[3] + (s2 \div Limb)
        s4 == d[4] + (s3 \div Limb)
    IN  <<d[1] % Limb, s2 % Limb, s3 % Limb, s4>>

\* the distance, in 2^-57, between the doubles of the binade of d
ulpOf(d) ==
    IF d[4] >= 65536 THEN 512
    ELSE IF d[4] >= 32768 THEN 256
    ELSE IF d[4] >= 16384 THEN 128
    ELSE IF d[4] >= 8192 THEN 64
    ELSE IF d[4] >= 4096 THEN 32
    ELSE IF d[4] >= 2048 THEN 16
    ELSE IF d[4] >= 1024 THEN 8
    ELSE IF d[4] >= 512 THEN 4
    ELSE IF d[4] >= 256 THEN 2
    ELSE 1

\* the double nearest to the number d, a tie to the one with the even mantissa
roundToDouble(d) ==
    LET ulp == ulpOf(d)
        r   == d[1] % ulp
        up  == 2 * r > ulp \/ (2 * r = ulp /\ (d[1] \div ulp) % 2 = 1)
    IN  carried(<<d[1] - r + (IF up THEN ulp ELSE 0), d[2], d[3], d[4]>>)

\* a + b of two doubles
plus(a, b) ==
    roundToDouble(carried(<<a[1] + b[1], a[2] + b[2], a[3] + b[3], a[4] + b[4]>>))

\* the quotient and the remainder of the number d by the integer n
longDivision(d, n) ==
    LET t3 == (d[4] % n) * Limb + d[3]
        t2 == (t3 % n) * Limb + d[2]
        t1 == (t2 % n) * Limb + d[1]
    IN  [q |-> <<t1 \div n, t2 \div n, t3 \div n, d[4] \div n>>, r |-> t1 % n]

\* a / n of a double and an integer n > 0 that is a double
dividedBy(a, n) ==
    LET ulp  == ulpOf(longDivision(a, n).q)
        over == longDivision(a, n * ulp)
        up   == 2 * over.r > n * ulp \/ (2 * over.r = n * ulp /\ over.q[1] % 2 = 1)
    IN  carried(<<(over.q[1] + (IF up THEN 1 ELSE 0)) * ulp, over.q[2] * ulp,
                  over.q[3] * ulp, over.q[4] * ulp>>)

\* a > b of two doubles
greater(a, b) ==
    \E i \in 1..4 : a[i] > b[i] /\ \A j \in (i + 1)..4 : a[j] = b[j]


(***************************************************************************)
(* The doubles of the expert verification score.  The score can be         *)
(* negative: a signed double is a sign and the digits of its magnitude.    *)
(* The numbers that arise are 0 or at least 2^-5 in magnitude where they   *)
(* are rounded, and a difference is a multiple of 2^-57 like its terms.    *)
(***************************************************************************)
\* the literals 0.025, 0.2, 0.3, 0.9 and 4.8
Double0_025 == <<19661, 6553, 13107, 102>>

Double0_2 == <<26216, 19660, 6553, 819>>

Double0_3 == <<6552, 13107, 26214, 1228>>

Double0_9 == <<19664, 6553, 13107, 3686>>

Double4_8 == <<6528, 13107, 26214, 19660>>

\* the double of a small integer n >= 0
fromInteger(n) == <<0, 0, 0, n * 4096>>

\* a * n of a double and a small integer n >= 0
times(a, n) == roundToDouble(carried(<<a[1] * n, a[2] * n, a[3] * n, a[4] * n>>))

\* a - b of two doubles, a >= b
minus(a, b) ==
    roundToDouble(carried(<<a[1] - b[1], a[2] - b[2], a[3] - b[3], a[4] - b[4]>>))

Signed(negative, magnitude) == [negative |-> negative, magnitude |-> magnitude]

positive(a) == Signed(FALSE, a)

\* a + b of two signed doubles
signedPlus(a, b) ==
    IF a.negative = b.negative
    THEN Signed(a.negative, plus(a.magnitude, b.magnitude))
    ELSE IF greater(b.magnitude, a.magnitude)
    THEN Signed(b.negative, minus(b.magnitude, a.magnitude))
    ELSE IF greater(a.magnitude, b.magnitude)
    THEN Signed(a.negative, minus(a.magnitude, b.magnitude))
    ELSE positive(Double0)

\* a - b of two doubles, of either order
signedMinus(a, b) ==
    signedPlus(positive(a), IF b = Double0 THEN positive(b) ELSE Signed(TRUE, b))

\* a / 2 of a signed double
halved(a) == Signed(a.negative, dividedBy(a.magnitude, 2))

\* a > b of two signed doubles
signedGreater(a, b) ==
    IF a.negative /\ b.negative THEN greater(b.magnitude, a.magnitude)
    ELSE IF a.negative THEN FALSE
    ELSE IF b.negative THEN TRUE
    ELSE greater(a.magnitude, b.magnitude)

\* a >= b of two signed doubles
atLeast(a, b) == ~signedGreater(b, a)

\* Math.min(a, b) of two signed doubles
mathMin(a, b) == IF signedGreater(a, b) THEN b ELSE a
(***************************************************************************)
(* ROICalculator: the ROI of a tool and of a set of tools.  Amounts are in *)
(* cents, multipliers in tenths, the efficiency improvement in             *)
(* thousandths, the revenue growth in hundredths; the confidence is a      *)
(* double.                                                                 *)
(***************************************************************************)
\* 0.5 + (the number of indicators that hold / 5) * 1.5, in tenths
getComplexityMultiplier(t) ==
    LET complexityIndicators ==
            << includes(t.description, <<"e", "n", "t", "e", "r", "p", "r", "i", "s", "e">>),
               includes(t.description, <<"a", "d", "v", "a", "n", "c", "e", "d">>),
               includes(t.description, <<"c", "o", "m", "p", "l", "e", "x">>),
               someTag(t, LAMBDA tag : includes(tag, <<"e", "n", "t", "e", "r", "p", "r", "i", "s", "e">>)),
               someTag(t, LAMBDA tag : includes(tag, <<"a", "d", "v", "a", "n", "c", "e", "d">>)) >>
    IN  5 + 3 * Cardinality({i \in 1..5 : complexityIndicators[i]})

\* getComplexityMultiplier of the tools of the model, evaluated once
complexityOf == [t \in KnownTools |-> getComplexityMultiplier(t)]

\* this.extractPrice(tool.pricing) of the tools of the model, evaluated once
monthlyCostOf == [t \in KnownTools |-> ROICalculator_extractPrice(t.pricing)]

\* in tenths
ROICalculator_getTeamSizeMultiplier(teamSize) ==
    CASE teamSize = "solo"       -> 5
      [] teamSize = "small"      -> 10
      [] teamSize = "medium"     -> 15
      [] teamSize = "large"      -> 20
      [] teamSize = "enterprise" -> 30
      [] OTHER                   -> 10

\* Math.round(500 * complexity * teamSize) dollars
estimateSetupCost(t, profile) ==
    100 * RoundDiv(500 * complexityOf[t]
                       * ROICalculator_getTeamSizeMultiplier(profile.teamSize), 100)

\* Math.round(200 * complexity * teamSize) dollars
estimateTrainingCost(t, profile) ==
    100 * RoundDiv(200 * complexityOf[t]
                       * ROICalculator_getTeamSizeMultiplier(profile.teamSize), 100)

\* Variant of calculateInvestment whose total is the subscription alone
calculateInvestmentSubscriptionOnly(t, profile) ==
    LET monthlyCost  == monthlyCostOf[t]
        setupCost    == estimateSetupCost(t, profile)
        trainingCost == estimateTrainingCost(t, profile)
    IN  [monthly  |-> monthlyCost,
         annual   |-> monthlyCost * 12,
         setup    |-> setupCost,
         training |-> trainingCost,
         total    |-> monthlyCost * 12]

calculateInvestment(t, profile) ==
    LET monthlyCost  == monthlyCostOf[t]
        setupCost    == estimateSetupCost(t, profile)
        trainingCost == estimateTrainingCost(t, profile)
    IN  [monthly  |-> monthlyCost,
         annual   |-> monthlyCost * 12,
         setup    |-> setupCost,
         training |-> trainingCost,
         total    |-> monthlyCost * 12 + setupCost + trainingCost]

\* hours per month
estimateTimeSavings(t) ==
    CASE t.category = <<"M", "a", "r", "k", "e", "t", "i", "n", "g">>          -> 20
      [] t.category = <<"D", "e", "s", "i", "g", "n">>             -> 15
      [] t.category = <<"D", "e", "v", "e", "l", "o", "p", "m", "e", "n", "t">>        -> 25
      [] t.category = <<"A", "n", "a", "l", "y", "t", "i", "c", "s">>          -> 18
      [] t.category = <<"A", "u", "t", "o", "m", "a", "t", "i", "o", "n">>         -> 30
      [] t.category = <<"C", "o", "m", "m", "u", "n", "i", "c", "a", "t", "i", "o", "n">>      -> 12
      [] t.category = <<"P", "r", "o", "j", "e", "c", "t", " ", "M", "a", "n", "a", "g", "e", "m", "e", "n", "t">> -> 22
      [] t.category = <<"F", "i", "n", "a", "n", "c", "e">>            -> 16
      [] OTHER                              -> 15

\* dollars per hour
getHourlyRate(profile) ==
    CASE profile.industry = Technology -> 75
      [] profile.industry = Finance    -> 85
      [] profile.industry = Marketing  -> 60
      [] profile.industry = Healthcare -> 70
      [] profile.industry = Education  -> 45
      [] profile.industry = Ecommerce  -> 65
      [] OTHER                         -> 60

calculateTimeSavings(t, profile) ==
    100 * estimateTimeSavings(t) * getHourlyRate(profile) * 12

\* 0.15 * ((tool.rating || 4.0) / 5.0), in thousandths
estimateEfficiencyImprovement(t) ==
    3 * (IF ratingOrZero(t) # 0 THEN t.rating[1] ELSE 40)

\* dollars per year
getAverageSalary(profile) ==
    CASE profile.industry = Technology -> 120000
      [] profile.industry = Finance    -> 140000
      [] profile.industry = Marketing  -> 90000
      [] profile.industry = Healthcare -> 110000
      [] profile.industry = Education  -> 70000
      [] profile.industry = Ecommerce  -> 100000
      [] OTHER                         -> 90000

\* (efficiency * teamSize * salary * 0.1) * 12: with the efficiency in
\* thousandths, the multiplier in tenths and the salary a multiple of 1000
\* dollars this is efficiency * teamSize * (salary / 1000) * 12 cents
calculateProductivityGains(t, profile) ==
    estimateEfficiencyImprovement(t)
        * ROICalculator_getTeamSizeMultiplier(profile.teamSize)
        * (getAverageSalary(profile) \div 1000) * 12

\* dollars per year
estimateCurrentCosts(t, profile) ==
    CASE t.category = <<"M", "a", "r", "k", "e", "t", "i", "n", "g">>          -> 2000
      [] t.category = <<"D", "e", "s", "i", "g", "n">>             -> 1500
      [] t.category = <<"D", "e", "v", "e", "l", "o", "p", "m", "e", "n", "t">>        -> 3000
      [] t.category = <<"A", "n", "a", "l", "y", "t", "i", "c", "s">>          -> 1800
      [] t.category = <<"A", "u", "t", "o", "m", "a", "t", "i", "o", "n">>         -> 2500
      [] t.category = <<"C", "o", "m", "m", "u", "n", "i", "c", "a", "t", "i", "o", "n">>      -> 800
      [] t.category = <<"P", "r", "o", "j", "e", "c", "t", " ", "M", "a", "n", "a", "g", "e", "m", "e", "n", "t">> -> 1200
      [] t.category = <<"F", "i", "n", "a", "n", "c", "e">>            -> 1000
      [] OTHER                              -> 1500

calculateCostReduction(t, profile) ==
    LET currentCosts == 100 * estimateCurrentCosts(t, profile)
        newCosts     == monthlyCostOf[t] * 12
    IN  Max(0, currentCosts - newCosts)

\* dollars per year
estimateCurrentRevenue(profile) ==
    CASE profile.industry = Technology -> 500000
      [] profile.industry = Finance    -> 800000
      [] profile.industry = Marketing  -> 300000
      [] profile.industry = Healthcare -> 600000
      [] profile.industry = Education  -> 200000
      [] profile.industry = Ecommerce  -> 400000
      [] OTHER                         -> 300000

\* in hundredths
estimateRevenueGrowth(t) ==
    CASE t.category = <<"M", "a", "r", "k", "e", "t", "i", "n", "g">>          -> 25
      [] t.category = <<"D", "e", "s", "i", "g", "n">>             -> 15
      [] t.category = <<"D", "e", "v", "e", "l", "o", "p", "m", "e", "n", "t">>        -> 30
      [] t.category = <<"A", "n", "a", "l", "y", "t", "i", "c", "s">>          -> 20
      [] t.category = <<"A", "u", "t", "o", "m", "a", "t", "i", "o", "n">>         -> 35
      [] t.category = <<"C", "o", "m", "m", "u", "n", "i", "c", "a", "t", "i", "o", "n">>      -> 10
      [] t.category = <<"P", "r", "o", "j", "e", "c", "t", " ", "M", "a", "n", "a", "g", "e", "m", "e", "n", "t">> -> 18
      [] t.category = <<"F", "i", "n", "a", "n", "c", "e">>            -> 12
      [] OTHER                              -> 15

\* dollars times hundredths are cents
calculateRevenueIncrease(t, profile) ==
    estimateCurrentRevenue(profile) * estimateRevenueGrowth(t)

calculateReturns(t, profile) ==
    LET timeSavings       == calculateTimeSavings(t, profile)
        productivityGains == calculateProductivityGains(t, profile)
        costReduction     == calculateCostReduction(t, profile)
        revenueIncrease   == calculateRevenueIncrease(t, profile)
    IN  [timeSavings       |-> timeSavings,
         productivityGains |-> productivityGains,
         costReduction     |-> costReduction,
         revenueIncrease   |-> revenueIncrease,
         total |-> timeSavings + productivityGains + costReduction + revenueIncrease]

\* the four breakdowns; a monthly value that is a twelfth is a fraction of cents
calculateBreakdown(t, profile) ==
    [timeSavings |->
        [hoursPerMonth |-> estimateTimeSavings(t),
         hourlyRate    |-> getHourlyRate(profile),
         monthlyValue  |-> 100 * estimateTimeSavings(t) * getHourlyRate(profile)],
     productivityGains |->
        [efficiencyImprovement |-> estimateEfficiencyImprovement(t),
         teamSize      |-> ROICalculator_getTeamSizeMultiplier(profile.teamSize),
         averageSalary |-> getAverageSalary(profile),
         monthlyValue  |-> calculateProductivityGains(t, profile) \div 12],
     costReduction |->
        [currentCosts   |-> 100 * estimateCurrentCosts(t, profile),
         newCosts       |-> monthlyCostOf[t] * 12,
         monthlySavings |-> Frac(calculateCostReduction(t, profile), 12)],
     revenueIncrease |->
        [currentRevenue  |-> 100 * estimateCurrentRevenue(profile),
         expectedGrowth  |-> estimateRevenueGrowth(t),
         monthlyIncrease |-> Frac(calculateRevenueIncrease(t, profile), 12)]]

ROICalculator_getIndustryKeywords(industry) ==
    CASE industry = Technology -> <<<<"s", "o", "f", "t", "w", "a", "r", "e">>, <<"t", "e", "c", "h">>, <<"d", "e", "v", "e", "l", "o", "p", "m", "e", "n", "t">>, <<"c", "o", "d", "i", "n", "g">>, <<"p", "r", "o", "g", "r", "a", "m", "m", "i", "n", "g">>>>
      [] industry = Marketing  -> <<<<"m", "a", "r", "k", "e", "t", "i", "n", "g">>, <<"a", "d", "v", "e", "r", "t", "i", "s", "i", "n", "g">>, <<"s", "o", "c", "i", "a", "l", " ", "m", "e", "d", "i", "a">>, <<"c", "a", "m", "p", "a", "i", "g", "n">>, <<"b", "r", "a", "n", "d">>>>
      [] industry = Finance    -> <<<<"f", "i", "n", "a", "n", "c", "e">>, <<"a", "c", "c", "o", "u", "n", "t", "i", "n", "g">>, <<"b", "u", "d", "g", "e", "t", "i", "n", "g">>, <<"i", "n", "v", "e", "s", "t", "m", "e", "n", "t">>, <<"b", "a", "n", "k", "i", "n", "g">>>>
      [] industry = Healthcare -> <<<<"h", "e", "a", "l", "t", "h">>, <<"m", "e", "d", "i", "c", "a", "l">>, <<"p", "a", "t", "i", "e", "n", "t">>, <<"c", "l", "i", "n", "i", "c", "a", "l">>, <<"d", "i", "a", "g", "n", "o", "s", "i", "s">>>>
      [] industry = Education  -> <<<<"e", "d", "u", "c", "a", "t", "i", "o", "n">>, <<"l", "e", "a", "r", "n", "i", "n", "g">>, <<"t", "e", "a", "c", "h", "i", "n", "g">>, <<"s", "t", "u", "d", "e", "n", "t">>, <<"c", "o", "u", "r", "s", "e">>>>
      [] industry = Ecommerce  -> <<<<"e", "c", "o", "m", "m", "e", "r", "c", "e">>, <<"r", "e", "t", "a", "i", "l">>, <<"s", "a", "l", "e", "s">>, <<"i", "n", "v", "e", "n", "t", "o", "r", "y">>, <<"s", "h", "i", "p", "p", "i", "n", "g">>>>
      [] OTHER                 -> <<toLowerCase(industry)>>

isIndustryRelevant(t, industry) ==
    LET toolText == toLowerCase(t.name \o <<" ">> \o t.description \o <<" ">> \o joinSpace(t.tags))
        industryKeywords == ROICalculator_getIndustryKeywords(industry)
    IN  \E i \in 1..Len(industryKeywords) :
            includes(toolText, toLowerCase(industryKeywords[i]))

\* isIndustryRelevant of the tools and industries of the model, evaluated once
industryRelevantOf ==
    [t \in KnownTools |-> [i \in Industries |-> isIndustryRelevant(t, i)]]

\* the thresholds 1.2, 1.0, 1.8 and 1.5 in tenths
matchesExperienceLevel(t, experience) ==
    LET complexity == complexityOf[t]
    IN  \/ experience = "beginner" /\ complexity < 12
        \/ experience = "intermediate" /\ complexity >= 10 /\ complexity <= 18
        \/ experience = "expert" /\ complexity > 15

\* confidence += bonus when the test holds
bonus(confidence, test, amount) == IF test THEN plus(confidence, amount) ELSE confidence

\* Variant of ROICalculator_calculateConfidence without the bonus of the rating >= 4.5
ROICalculator_calculateConfidenceOneRatingBonus(t, profile) ==
    LET rated      == bonus(Double0_7, ratingOrZero(t) >= 40, Double0_05)
        relevant   == bonus(rated, industryRelevantOf[t][profile.industry], Double0_1)
        confidence == bonus(relevant, matchesExperienceLevel(t, profile.experience), Double0_05)
    IN  IF greater(confidence, Double1) THEN Double1 ELSE confidence

\* ROICalculator.calculateConfidence: a double
ROICalculator_calculateConfidence(t, profile) ==
    LET rated45    == bonus(Double0_7, ratingOrZero(t) >= 45, Double0_1)
        rated      == bonus(rated45, ratingOrZero(t) >= 40, Double0_05)
        relevant   == bonus(rated, industryRelevantOf[t][profile.industry], Double0_1)
        confidence == bonus(relevant, matchesExperienceLevel(t, profile.experience), Double0_05)
    IN  IF greater(confidence, Double1) THEN Double1 ELSE confidence

\* the assumptions, each named by what it says
generateAssumptions(t, profile) ==
    << <<"industry averages", profile.industry>>,
       <<"team size", profile.teamSize>>,
       <<"implementation timeline", profile.experience>>,
       <<"12-month period">>,
       <<"setup and training costs">> >>
    \o (IF ratingOrZero(t) # 0 /\ t.rating[1] < 40
        THEN << <<"lower confidence due to tool rating">> >> ELSE << >>)

calculateToolROI(t, profile) ==
    With(calculateInvestment(t, profile), LAMBDA inv :
    With(calculateReturns(t, profile), LAMBDA ret :
        [toolId      |-> t.id,
         toolName    |-> t.name,
         investment  |-> inv,
         returns     |-> ret,
         roi         |-> calculateROIMetrics(inv.total, ret.total),
         breakdown   |-> calculateBreakdown(t, profile),
         confidence  |-> ROICalculator_calculateConfidence(t, profile),
         assumptions |-> generateAssumptions(t, profile)]))

\* toolROIs.reduce((sum, roi) => sum + roi.investment.total, 0)
RECURSIVE sumInvestment(_)
sumInvestment(toolROIs) ==
    IF Len(toolROIs) = 0 THEN 0
    ELSE sumInvestment(SubSeq(toolROIs, 1, Len(toolROIs) - 1))
         + toolROIs[Len(toolROIs)].investment.total

\* toolROIs.reduce((sum, roi) => sum + roi.returns.total, 0)
RECURSIVE sumReturns(_)
sumReturns(toolROIs) ==
    IF Len(toolROIs) = 0 THEN 0
    ELSE sumReturns(SubSeq(toolROIs, 1, Len(toolROIs) - 1))
         + toolROIs[Len(toolROIs)].returns.total

\* toolROIs.reduce((sum, roi) => sum + roi.confidence, 0): the doubles are added
\* from the first to the last
RECURSIVE sumConfidence(_)
sumConfidence(toolROIs) ==
    IF Len(toolROIs) = 0 THEN Double0
    ELSE plus(sumConfidence(SubSeq(toolROIs, 1, Len(toolROIs) - 1)),
              toolROIs[Len(toolROIs)].confidence)

\* Variant of assessRisk that holds the investment against budget.annual
assessRiskOfAnnualBudget(toolROIs, profile) ==
    LET n               == Len(toolROIs)
        avgConfidence   == dividedBy(sumConfidence(toolROIs), n)
        totalInvestment == sumInvestment(toolROIs)
        twelveBudgets   == 100 * profile.budget.annual
        under30         == twelveBudgets > 0 /\ 10 * totalInvestment < 3 * twelveBudgets
        under60         == twelveBudgets > 0 /\ 10 * totalInvestment < 6 * twelveBudgets
    IN  IF n = 0 THEN "high"
        ELSE IF greater(avgConfidence, Double0_8) /\ under30 THEN "low"
        ELSE IF greater(avgConfidence, Double0_6) /\ under60 THEN "medium"
        ELSE "high"

\* assessRisk.  Without tools the average is NaN, and with a budget of 0 the
\* ratio is Infinity: no comparison holds and the risk is 'high'.
assessRisk(toolROIs, profile) ==
    LET n               == Len(toolROIs)
        avgConfidence   == dividedBy(sumConfidence(toolROIs), n)
        totalInvestment == sumInvestment(toolROIs)
        twelveBudgets   == 100 * profile.budget.annual * 12
        under30         == twelveBudgets > 0 /\ 10 * totalInvestment < 3 * twelveBudgets
        under60         == twelveBudgets > 0 /\ 10 * totalInvestment < 6 * twelveBudgets
    IN  IF n = 0 THEN "high"
        ELSE IF greater(avgConfidence, Double0_8) /\ under30 THEN "low"
        ELSE IF greater(avgConfidence, Double0_6) /\ under60 THEN "medium"
        ELSE "high"

\* the recommendations, each named by what it says
ROICalculator_generateRecommendations(toolROIs, profile) ==
    LET highROITools == SelectSeq(toolROIs, LAMBDA r : r.roi.percentage.num > 20000)
        quickPaybackTools ==
            SelectSeq(toolROIs, LAMBDA r : r.roi.paybackPeriod # Infinity
                                            /\ r.roi.paybackPeriod.num < 600)
    IN  (IF Len(highROITools) > 0
         THEN << <<"prioritize", highROITools[1].toolName, highROITools[1].roi.percentage>> >>
         ELSE << >>)
        \o (IF Len(quickPaybackTools) > 0
            THEN << <<"start with", quickPaybackTools[1].toolName,
                      quickPaybackTools[1].roi.paybackPeriod>> >>
            ELSE << >>)
        \o (IF 10 * sumInvestment(toolROIs) > 8 * 100 * profile.budget.annual
            THEN << <<"implement in phases">> >> ELSE << >>)

\* ROICalculator.calculateStackROI; the stackId (Math.random) is left out and
\* the stackName is the number of tools it names
ROICalculator_calculateStackROI(tools, profile) ==
    With(Array([i \in 1..Len(tools) |-> calculateToolROI(tools[i], profile)]),
         LAMBDA toolROIs :
    With(sumInvestment(toolROIs), LAMBDA totalInvestment :
    With(sumReturns(toolROIs), LAMBDA totalReturns :
        [stackName       |-> Len(tools),
         tools           |-> toolROIs,
         totalInvestment |-> totalInvestment,
         totalReturns    |-> totalReturns,
         overallROI      |-> calculateROIMetrics(totalInvestment, totalReturns).percentage,
         paybackPeriod   |-> calculatePaybackPeriod(totalInvestment, totalReturns),
         riskAssessment  |-> assessRisk(toolROIs, profile),
         recommendations |-> ROICalculator_generateRecommendations(toolROIs, profile)])))

(***************************************************************************)
(* ToolStackBuilder.  estimatedCost is in cents, the budget argument in    *)
(* whole dollars.  The id (Math.random), userId, dates and the counters    *)
(* set to constants are left out of a ToolStack; its name is the kind of   *)
(* the stack, without the use case that useCase holds.                     *)
(***************************************************************************)
UseCases == {<<"m", "a", "r", "k", "e", "t", "i", "n", "g">>, <<"C", "o", "d", "i", "n", "g">>, <<"c", "o", "u", "r", "s", "e">>, <<"l", "e", "g", "a", "l">>}

Budgets == {0, 10, 60}

\* the catalogs generateToolStack is run over
StackCatalogs == Catalogs \cup LongListings

isEssentialForUseCase(t, uc) ==
    LET useCaseLower == toLowerCase(uc)
        toolText == toLowerCase(t.name \o <<" ">> \o t.description \o <<" ">> \o joinSpace(t.tags))
    IN  \/ includes(toolText, useCaseLower)
        \/ includes(toLowerCase(t.category), useCaseLower)
        \/ someTag(t, LAMBDA tag : includes(toLowerCase(tag), useCaseLower))

\* isEssentialForUseCase of the tools and use cases of the model, evaluated once
essentialOf ==
    [t \in KnownTools |-> [uc \in UseCases |-> isEssentialForUseCase(t, uc)]]

\* Variant of isBalancedForUseCase that asks for the rating alone
isBalancedForUseCaseByRating(t, uc) ==
    IF ratingOrZero(t) # 0 THEN t.rating[1] >= 40 ELSE FALSE

isBalancedForUseCase(t, uc) ==
    \/ essentialOf[t][uc]
    \/ (IF ratingOrZero(t) # 0 THEN t.rating[1] >= 40 ELSE FALSE)

isFeatureRichForUseCase(t, uc) ==
    \/ isBalancedForUseCase(t, uc)
    \/ (IF ratingOrZero(t) # 0 THEN t.rating[1] >= 35 ELSE FALSE)

getToolRole(t, uc) ==
    LET key == toLowerCase(uc)
    IN  CASE key = <<"m", "a", "r", "k", "e", "t", "i", "n", "g">>          -> <<"M", "a", "r", "k", "e", "t", "i", "n", "g", " ", "A", "u", "t", "o", "m", "a", "t", "i", "o", "n">>
          [] key = <<"d", "e", "s", "i", "g", "n">>             -> <<"D", "e", "s", "i", "g", "n", " ", "&", " ", "C", "r", "e", "a", "t", "i", "v", "e">>
          [] key = <<"d", "e", "v", "e", "l", "o", "p", "m", "e", "n", "t">>        -> <<"D", "e", "v", "e", "l", "o", "p", "m", "e", "n", "t", " ", "&", " ", "C", "o", "d", "i", "n", "g">>
          [] key = <<"a", "n", "a", "l", "y", "t", "i", "c", "s">>          -> <<"D", "a", "t", "a", " ", "&", " ", "A", "n", "a", "l", "y", "t", "i", "c", "s">>
          [] key = <<"a", "u", "t", "o", "m", "a", "t", "i", "o", "n">>         -> <<"W", "o", "r", "k", "f", "l", "o", "w", " ", "A", "u", "t", "o", "m", "a", "t", "i", "o", "n">>
          [] key = <<"c", "o", "m", "m", "u", "n", "i", "c", "a", "t", "i", "o", "n">>      -> <<"T", "e", "a", "m", " ", "C", "o", "m", "m", "u", "n", "i", "c", "a", "t", "i", "o", "n">>
          [] key = <<"p", "r", "o", "j", "e", "c", "t", " ", "m", "a", "n", "a", "g", "e", "m", "e", "n", "t">> -> <<"P", "r", "o", "j", "e", "c", "t", " ", "M", "a", "n", "a", "g", "e", "m", "e", "n", "t">>
          [] key = <<"f", "i", "n", "a", "n", "c", "e">>            -> <<"F", "i", "n", "a", "n", "c", "i", "a", "l", " ", "M", "a", "n", "a", "g", "e", "m", "e", "n", "t">>
          [] OTHER                       -> t.category

\* the note names the first two other tools and says whether there are more
generateIntegrationNotes(t, allTools) ==
    LET integrations == SelectSeq(allTools, LAMBDA o : o.id # t.id)
        shown == SubSeq(integrations, 1, Min(2, Len(integrations)))
    IN  IF Len(integrations) = 0
        THEN [standalone |-> TRUE, with |-> <<>>, andMore |-> FALSE]
        ELSE [standalone |-> FALSE,
              with       |-> [i \in 1..Len(shown) |-> shown[i].name],
              andMore    |-> Len(integrations) > 2]

RECURSIVE calculateStackCost(_)
calculateStackCost(tools) ==
    IF Len(tools) = 0 THEN 0
    ELSE calculateStackCost(SubSeq(tools, 1, Len(tools) - 1))
         + ToolStackBuilder_extractPrice(tools[Len(tools)].pricing)

\* Math.round(150 * industry * teamSize * Math.min(tools.length / 3, 1.5))
calculateStackROI(tools, profile) ==
    RoundDiv(150 * getIndustryROIMultiplier(profile.industry)
                 * getTeamSizeMultiplier(profile.teamSize)
                 * Min(2 * Len(tools), 9), 600)

\* Variant of priorityAt that counts index 3 among the first indexes
priorityAtThroughThree(kind, index) ==
    CASE kind = "Essential" -> "essential"
      [] kind = "Balanced"  -> IF index <= 3 THEN "essential" ELSE "important"
      [] kind = "Premium"   -> IF index <= 3 THEN "essential"
                               ELSE IF index < 5 THEN "important" ELSE "nice-to-have"

\* the priority the stack of this kind gives the tool at 0-based index
priorityAt(kind, index) ==
    CASE kind = "Essential" -> "essential"
      [] kind = "Balanced"  -> IF index < 3 THEN "essential" ELSE "important"
      [] kind = "Premium"   -> IF index < 3 THEN "essential"
                               ELSE IF index < 5 THEN "important" ELSE "nice-to-have"

stackDescription(kind, uc) ==
    CASE kind = "Essential" -> <<"C", "o", "r", "e", " ", "t", "o", "o", "l", "s", " ", "t", "o", " ", "g", "e", "t", " ", "s", "t", "a", "r", "t", "e", "d", " ", "w", "i", "t", "h", " ">> \o uc
      [] kind = "Balanced"  -> <<"C", "o", "m", "p", "l", "e", "t", "e", " ", "s", "o", "l", "u", "t", "i", "o", "n", " ", "f", "o", "r", " ">> \o uc \o <<" ", "w", "i", "t", "h", " ", "e", "s", "s", "e", "n", "t", "i", "a", "l", " ", "a", "n", "d", " ", "i", "m", "p", "o", "r", "t", "a", "n", "t", " ", "t", "o", "o", "l", "s">>
      [] kind = "Premium"   -> <<"C", "o", "m", "p", "r", "e", "h", "e", "n", "s", "i", "v", "e", " ", "s", "o", "l", "u", "t", "i", "o", "n", " ", "f", "o", "r", " ">> \o uc \o <<" ", "w", "i", "t", "h", " ", "a", "d", "v", "a", "n", "c", "e", "d", " ", "f", "e", "a", "t", "u", "r", "e", "s">>

\* what buildEssentialStack, buildBalancedStack and buildFeatureRichStack share:
\* the tools chosen, null when there are none or they cost more than the budget
NoStack == [name |-> "null"]

\* Variant of the three builders that leaves out the test of the cost
buildStackAnyCost(kind, selected, profile, uc, bud) ==
    With(selected, LAMBDA chosen :
    LET stackItems == [i \in 1..Len(chosen) |->
                          [toolId           |-> chosen[i].id,
                           role             |-> getToolRole(chosen[i], uc),
                           priority         |-> priorityAt(kind, i - 1),
                           integrationNotes |-> generateIntegrationNotes(chosen[i], chosen)]]
        estimatedCost == calculateStackCost(chosen)
    IN  IF Len(chosen) = 0 THEN NoStack
        ELSE [name          |-> kind,
              description   |-> stackDescription(kind, uc),
              tools         |-> stackItems,
              estimatedCost |-> estimatedCost,
              estimatedROI  |-> calculateStackROI(chosen, profile),
              complexity    |-> CASE kind = "Essential" -> "simple"
                                  [] kind = "Balanced"  -> "moderate"
                                  [] kind = "Premium"   -> "complex",
              useCase       |-> uc])

buildStack(kind, selected, profile, uc, bud) ==
    With(selected, LAMBDA chosen :
    LET stackItems == [i \in 1..Len(chosen) |->
                          [toolId           |-> chosen[i].id,
                           role             |-> getToolRole(chosen[i], uc),
                           priority         |-> priorityAt(kind, i - 1),
                           integrationNotes |-> generateIntegrationNotes(chosen[i], chosen)]]
        estimatedCost == calculateStackCost(chosen)
    IN  IF Len(chosen) = 0 THEN NoStack
        ELSE IF estimatedCost > 100 * bud THEN NoStack
        ELSE [name          |-> kind,
              description   |-> stackDescription(kind, uc),
              tools         |-> stackItems,
              estimatedCost |-> estimatedCost,
              estimatedROI  |-> calculateStackROI(chosen, profile),
              complexity    |-> CASE kind = "Essential" -> "simple"
                                  [] kind = "Balanced"  -> "moderate"
                                  [] kind = "Premium"   -> "complex",
              useCase       |-> uc])

buildEssentialStack(tools, profile, uc, bud) ==
    buildStack("Essential",
               slice(SelectSeq(tools, LAMBDA t : essentialOf[t][uc]), 3),
               profile, uc, bud)

buildBalancedStack(tools, profile, uc, bud) ==
    buildStack("Balanced",
               slice(SelectSeq(tools, LAMBDA t : isBalancedForUseCase(t, uc)), 5),
               profile, uc, bud)

\* Variant of buildFeatureRichStack that keeps up to 8 tools
buildFeatureRichStackOfEight(tools, profile, uc, bud) ==
    buildStack("Premium",
               slice(SelectSeq(tools, LAMBDA t : isFeatureRichForUseCase(t, uc)), 8),
               profile, uc, bud)

buildFeatureRichStack(tools, profile, uc, bud) ==
    buildStack("Premium",
               slice(SelectSeq(tools, LAMBDA t : isFeatureRichForUseCase(t, uc)), 7),
               profile, uc, bud)

buildStackConfigurations(tools, profile, uc, bud) ==
    With(<<buildEssentialStack(tools, profile, uc, bud),
           buildBalancedStack(tools, profile, uc, bud),
           buildFeatureRichStack(tools, profile, uc, bud)>>,
         LAMBDA candidates : SelectSeq(candidates, LAMBDA s : s.name # NoStack.name))

\* the number of primary goals found in the description or the use case
stackGoalMatches(stack, profile) ==
    Cardinality({i \in 1..Len(profile.primaryGoals) :
        \/ includes(toLowerCase(stack.description), toLowerCase(profile.primaryGoals[i]))
        \/ includes(toLowerCase(stack.useCase), toLowerCase(profile.primaryGoals[i]))})

\* Math.min(0.3 + 0.3 + ..., 1.0), in thousandths
stackGoalAlignment(stack, profile) == Min(300 * stackGoalMatches(stack, profile), 1000)

\* The double that 0.7 + 0.1 + ... (k times) and Math.min(.., 1.0) leave, cut to
\* four decimals: 0.7, 0.7999999999999999, 0.8999999999999999,
\* 0.9999999999999999 and, for k = 4, 1.0
confidenceAfter(k) ==
    CASE k = 0 -> 7000 [] k = 1 -> 7999 [] k = 2 -> 8999 [] k = 3 -> 9999 [] OTHER -> 10000

scoreStack(stack, profile) ==
    LET budgetFit == stack.estimatedCost <= 80 * profile.budget.monthly
        levelFit  == \/ profile.experience = "expert" /\ stack.complexity = "complex"
                     \/ profile.experience = "intermediate" /\ stack.complexity = "moderate"
                     \/ profile.experience = "beginner" /\ stack.complexity = "simple"
        goalFit   == stackGoalAlignment(stack, profile) > 700
        roiFit    == stack.estimatedROI > 200
        reasoning == SelectSeq(<<"budget", "experience", "goals", "roi">>,
                         LAMBDA r : CASE r = "budget"     -> budgetFit
                                      [] r = "experience" -> levelFit
                                      [] r = "goals"      -> goalFit
                                      [] r = "roi"        -> roiFit)
    IN  [stack           |-> stack,
         confidence      |-> confidenceAfter(Len(reasoning)),
         reasoning       |-> reasoning,
         alternatives    |-> <<>>,
         estimatedROI    |-> stack.estimatedROI,
         timeToImplement |-> CASE stack.complexity = "simple"   -> 14
                               [] stack.complexity = "moderate" -> 21
                               [] stack.complexity = "complex"  -> 35,
         learningCurve   |-> CASE stack.complexity = "simple"   -> "easy"
                               [] stack.complexity = "moderate" -> "medium"
                               [] stack.complexity = "complex"  -> "hard"]

\* Variant of compareConfidence that puts the least confident first
compareConfidenceAscending(a, b) == a.confidence - b.confidence

\* the comparator of generateToolStack: (a, b) => b.confidence - a.confidence
compareConfidence(a, b) == b.confidence - a.confidence

\* tools.find(t => t.id === rec.toolId) over the recommendations, undefined dropped
recommendedTools(recommendations, tools) ==
    LET found(i) == SelectSeq(tools, LAMBDA t : t.id = recommendations[i].toolId)
    IN  With(SelectSeq(Array([i \in 1..Len(recommendations) |-> found(i)]),
                       LAMBDA f : Len(f) > 0),
             LAMBDA hits : Array([i \in 1..Len(hits) |-> hits[i][1]]))

\* generateToolStack once the catalog is imported
generateToolStack(profile, uc, bud, tools) ==
    With(generateRecommendations(contextOf(profile), 10, tools),
         LAMBDA recommendations :
    With(recommendedTools(recommendations, tools),
         LAMBDA pool :
    With(buildStackConfigurations(pool, profile, uc, bud),
         LAMBDA built :
    With(Array([i \in 1..Len(built) |-> scoreStack(built[i], profile)]),
         LAMBDA scoredStacks :
    slice(sort(scoredStacks, compareConfidence), 3)))))


(***************************************************************************)
(* processUserMessage of AIAssistantButton: the chat dispatcher.  A text   *)
(* of a response is named by what it says (and by the values put in it).   *)
(***************************************************************************)
\* Array.prototype.some(s => str.includes(s)) over a list of strings
includesAny(str, subs) == \E i \in 1..Len(subs) : includes(str, subs[i])

greetings ==
    <<<<"h", "i">>, <<"h", "e", "l", "l", "o">>, <<"h", "e", "y">>, <<"g", "o", "o", "d", " ", "m", "o", "r", "n", "i", "n", "g">>, <<"g", "o", "o", "d", " ", "a", "f", "t", "e", "r", "n", "o", "o", "n">>, <<"g", "o", "o", "d", " ", "e", "v", "e", "n", "i", "n", "g">>,
      <<"h", "o", "w", "d", "y">>, <<"s", "u", "p">>, <<"w", "h", "a", "t", "'", "s", " ", "u", "p">>>>

helpPhrases == <<<<"h", "e", "l", "p">>, <<"w", "h", "a", "t", " ", "c", "a", "n", " ", "y", "o", "u", " ", "d", "o">>, <<"h", "o", "w", " ", "d", "o", " ", "y", "o", "u", " ", "w", "o", "r", "k">>>>

thanksPhrases == <<<<"t", "h", "a", "n", "k">>, <<"t", "h", "a", "n", "k", "s">>>>

goodbyePhrases == <<<<"b", "y", "e">>, <<"g", "o", "o", "d", "b", "y", "e">>, <<"s", "e", "e", " ", "y", "o", "u">>>>

commonWords ==
    <<<<"t", "h", "e">>, <<"a", "n", "d">>, <<"o", "r">>, <<"b", "u", "t">>, <<"i", "n">>, <<"o", "n">>, <<"a", "t">>, <<"t", "o">>, <<"f", "o", "r">>, <<"o", "f">>, <<"w", "i", "t", "h">>,
      <<"b", "y">>, <<"i", "s">>, <<"a", "r", "e">>, <<"w", "a", "s">>, <<"w", "e", "r", "e">>, <<"b", "e">>, <<"b", "e", "e", "n">>, <<"h", "a", "v", "e">>, <<"h", "a", "s">>, <<"h", "a", "d">>,
      <<"d", "o">>, <<"d", "o", "e", "s">>, <<"d", "i", "d">>, <<"w", "i", "l", "l">>, <<"w", "o", "u", "l", "d">>, <<"c", "o", "u", "l", "d">>, <<"s", "h", "o", "u", "l", "d">>, <<"m", "a", "y">>, <<"m", "i", "g", "h", "t">>,
      <<"c", "a", "n">>, <<"t", "h", "i", "s">>, <<"t", "h", "a", "t">>, <<"t", "h", "e", "s", "e">>, <<"t", "h", "o", "s", "e">>, <<"a">>, <<"a", "n">>>>

\* The search patterns in their order.  pattern: the alternatives of the regular
\* expression (flag i); inCategory, inSubcategory, inTag: the substrings the filter
\* looks for in the lower-cased category, subcategory and tags of a tool.
searchPatterns ==
    << [pattern |-> <<<<"v", "i", "d", "e", "o">>, <<"e", "d", "i", "t", "i", "n", "g">>, <<"f", "i", "l", "m">>, <<"m", "o", "v", "i", "e">>, <<"y", "o", "u", "t", "u", "b", "e">>, <<"v", "l", "o", "g">>>>,
        category |-> "video",
        inCategory |-> <<<<"v", "i", "d", "e", "o">>>>, inSubcategory |-> <<<<"v", "i", "d", "e", "o">>>>, inTag |-> <<<<"v", "i", "d", "e", "o">>>>],
       [pattern |-> <<<<"w", "r", "i", "t", "i", "n", "g">>, <<"c", "o", "n", "t", "e", "n", "t">>, <<"b", "l", "o", "g">>, <<"a", "r", "t", "i", "c", "l", "e">>, <<"c", "o", "p", "y">>, <<"t", "e", "x", "t">>>>,
        category |-> "writing",
        inCategory |-> <<<<"w", "r", "i", "t", "i", "n", "g">>>>, inSubcategory |-> <<<<"w", "r", "i", "t", "i", "n", "g">>>>, inTag |-> <<<<"w", "r", "i", "t", "i", "n", "g">>>>],
       [pattern |-> <<<<"c", "o", "d", "i", "n", "g">>, <<"p", "r", "o", "g", "r", "a", "m", "m", "i", "n", "g">>, <<"d", "e", "v", "e", "l", "o", "p", "e", "r">>, <<"c", "o", "d", "e">>, <<"s", "o", "f", "t", "w", "a", "r", "e">>>>,
        category |-> "coding",
        inCategory |-> <<<<"c", "o", "d", "i", "n", "g">>>>, inSubcategory |-> <<<<"c", "o", "d", "i", "n", "g">>>>, inTag |-> <<<<"c", "o", "d", "i", "n", "g">>>>],
       [pattern |-> <<<<"d", "a", "t", "a">>, <<"a", "n", "a", "l", "y", "s", "i", "s">>, <<"a", "n", "a", "l", "y", "t", "i", "c", "s">>, <<"i", "n", "s", "i", "g", "h", "t", "s">>, <<"r", "e", "p", "o", "r", "t", "i", "n", "g">>>>,
        category |-> "data",
        inCategory |-> <<<<"d", "a", "t", "a">>>>, inSubcategory |-> <<<<"d", "a", "t", "a">>>>, inTag |-> <<<<"d", "a", "t", "a">>>>],
       [pattern |-> <<<<"d", "e", "s", "i", "g", "n">>, <<"g", "r", "a", "p", "h", "i", "c">>, <<"a", "r", "t">>, <<"c", "r", "e", "a", "t", "i", "v", "e">>, <<"v", "i", "s", "u", "a", "l">>>>,
        category |-> "design",
        inCategory |-> <<<<"d", "e", "s", "i", "g", "n">>>>, inSubcategory |-> <<<<"d", "e", "s", "i", "g", "n">>>>, inTag |-> <<<<"d", "e", "s", "i", "g", "n">>>>],
       [pattern |-> <<<<"m", "a", "r", "k", "e", "t", "i", "n", "g">>, <<"s", "o", "c", "i", "a", "l">>, <<"a", "d", "s">>, <<"c", "a", "m", "p", "a", "i", "g", "n">>, <<"p", "r", "o", "m", "o", "t", "i", "o", "n">>>>,
        category |-> "marketing",
        inCategory |-> <<<<"m", "a", "r", "k", "e", "t", "i", "n", "g">>>>, inSubcategory |-> <<<<"m", "a", "r", "k", "e", "t", "i", "n", "g">>>>, inTag |-> <<<<"m", "a", "r", "k", "e", "t", "i", "n", "g">>>>],
       [pattern |-> <<<<"a", "i", " ", "a", "g", "e", "n", "t">>, <<"a", "u", "t", "o", "m", "a", "t", "i", "o", "n">>, <<"w", "o", "r", "k", "f", "l", "o", "w">>, <<"b", "o", "t">>, <<"p", "r", "o", "c", "e", "s", "s", " ", "a", "u", "t", "o", "m", "a", "t", "i", "o", "n">>>>,
        category |-> "automation",
        inCategory |-> <<<<"a", "u", "t", "o", "m", "a", "t", "i", "o", "n">>, <<"a", "g", "e", "n", "t">>>>, inSubcategory |-> <<<<"a", "u", "t", "o", "m", "a", "t", "i", "o", "n">>>>,
        inTag |-> <<<<"a", "u", "t", "o", "m", "a", "t", "i", "o", "n">>, <<"w", "o", "r", "k", "f", "l", "o", "w">>>>],
       [pattern |-> <<<<"p", "e", "r", "s", "o", "n", "a", "l", " ", "f", "i", "n", "a", "n", "c", "e">>, <<"b", "u", "d", "g", "e", "t", "i", "n", "g">>, <<"f", "i", "n", "a", "n", "c", "e">>, <<"m", "o", "n", "e", "y">>, <<"b", "u", "d", "g", "e", "t">>, <<"f", "i", "n", "a", "n", "c", "i", "a", "l">>>>,
        category |-> "finance",
        inCategory |-> <<<<"f", "i", "n", "a", "n", "c", "e">>, <<"b", "u", "d", "g", "e", "t", "i", "n", "g">>>>,
        inSubcategory |-> <<<<"f", "i", "n", "a", "n", "c", "e">>, <<"f", "i", "n", "a", "n", "c", "i", "a", "l", " ", "p", "l", "a", "n", "n", "i", "n", "g">>>>,
        inTag |-> <<<<"f", "i", "n", "a", "n", "c", "e">>, <<"b", "u", "d", "g", "e", "t">>>>],
       [pattern |-> <<<<"h", "e", "a", "l", "t", "h">>, <<"m", "e", "d", "i", "c", "a", "l">>, <<"w", "e", "l", "l", "n", "e", "s", "s">>, <<"f", "i", "t", "n", "e", "s", "s">>, <<"s", "y", "m", "p", "t", "o", "m">>, <<"d", "i", "a", "g", "n", "o", "s", "i", "s">>>>,
        category |-> "health",
        inCategory |-> <<<<"h", "e", "a", "l", "t", "h">>>>, inSubcategory |-> <<<<"h", "e", "a", "l", "t", "h">>>>,
        inTag |-> <<<<"h", "e", "a", "l", "t", "h">>, <<"m", "e", "d", "i", "c", "a", "l">>>>],
       [pattern |-> <<<<"e", "d", "u", "c", "a", "t", "i", "o", "n">>, <<"l", "e", "a", "r", "n", "i", "n", "g">>, <<"t", "e", "a", "c", "h", "i", "n", "g">>, <<"s", "t", "u", "d", "e", "n", "t">>, <<"c", "o", "u", "r", "s", "e">>, <<"t", "r", "a", "i", "n", "i", "n", "g">>>>,
        category |-> "education",
        inCategory |-> <<<<"e", "d", "u", "c", "a", "t", "i", "o", "n">>>>, inSubcategory |-> <<<<"e", "d", "u", "c", "a", "t", "i", "o", "n">>>>,
        inTag |-> <<<<"e", "d", "u", "c", "a", "t", "i", "o", "n">>, <<"l", "e", "a", "r", "n", "i", "n", "g">>>>],
       [pattern |-> <<<<"g", "a", "m", "i", "n", "g">>, <<"g", "a", "m", "e">>, <<"e", "n", "t", "e", "r", "t", "a", "i", "n", "m", "e", "n", "t">>, <<"f", "u", "n">>, <<"p", "l", "a", "y">>>>,
        category |-> "gaming",
        inCategory |-> <<<<"g", "a", "m", "i", "n", "g">>, <<"e", "n", "t", "e", "r", "t", "a", "i", "n", "m", "e", "n", "t">>>>, inSubcategory |-> <<<<"g", "a", "m", "i", "n", "g">>>>,
        inTag |-> <<<<"g", "a", "m", "e">>, <<"e", "n", "t", "e", "r", "t", "a", "i", "n", "m", "e", "n", "t">>>>],
       [pattern |-> <<<<"l", "e", "g", "a", "l">>, <<"l", "a", "w">>, <<"c", "o", "m", "p", "l", "i", "a", "n", "c", "e">>, <<"c", "o", "n", "t", "r", "a", "c", "t">>, <<"d", "o", "c", "u", "m", "e", "n", "t">>>>,
        category |-> "legal",
        inCategory |-> <<<<"l", "e", "g", "a", "l">>>>, inSubcategory |-> <<<<"l", "e", "g", "a", "l">>>>,
        inTag |-> <<<<"l", "e", "g", "a", "l">>, <<"l", "a", "w">>>>] >>

\* pattern.test(message): the alternatives are lower-case letters and spaces, so
\* with flag i one of them occurs in the lower-cased message
patternTest(p, msg) == includesAny(toLowerCase(msg), p.pattern)

\* the filter of the tools: field of a search pattern
patternFilter(p, t) ==
    \/ includesAny(toLowerCase(t.category), p.inCategory)
    \/ includesAny(toLowerCase(t.subcategory), p.inSubcategory)
    \/ someTag(t, LAMBDA tag : includesAny(toLowerCase(tag), p.inTag))

\* Variant of patternTools that keeps every tool the filter lets through
patternToolsUncut(p, tools) ==
    SelectSeq(tools, LAMBDA t : patternFilter(p, t))

\* the tools: field of a search pattern
patternTools(p, tools) ==
    slice(SelectSeq(tools, LAMBDA t : patternFilter(p, t)), 5)

toolNames(tools) == [i \in 1..Len(tools) |-> tools[i].name]

NoContext == [type |-> "", category |-> "", tools |-> <<>>, hasTools |-> FALSE]

textItem(text) == [type |-> "text", text |-> text, tools |-> <<>>]

toolCard(title, tools) == [type |-> "tool_card", text |-> <<title>>, tools |-> tools]

cannedResponse(type) ==
    [content |-> <<textItem(<<type>>)>>,
     context |-> [NoContext EXCEPT !.type = type]]

errorResponse ==
    [content |-> <<textItem(<<"error">>)>>, context |-> NoContext]

\* the filter of the general search
searchFilter(t, messageLower) ==
    \/ includes(toLowerCase(t.name), messageLower)
    \/ includes(toLowerCase(t.description), messageLower)
    \/ someTag(t, LAMBDA tag : includes(toLowerCase(tag), messageLower))
    \/ includes(toLowerCase(t.category), messageLower)

\* the response that ends processUserMessage when nothing was found
noResultsResponse(msg) ==
    [content |-> <<textItem(<<"no results", msg>>)>>, context |-> NoContext]

\* Variant of searchResponse that leaves out the test searchResults.length > 0
searchResponseAnyLength(msg, messageLower, tools) ==
    LET matching == {i \in 1..Len(searchPatterns) : patternTest(searchPatterns[i], msg)}
        found    == matching # {}
        first    == CHOOSE i \in matching : \A j \in matching : i <= j
        matchedPattern == searchPatterns[first]
        matchedTools   == patternTools(matchedPattern, tools)
        searchResults  == slice(SelectSeq(tools, LAMBDA t : searchFilter(t, messageLower)), 3)
        general == /\ Len(messageLower) >= 3
                   /\ \A i \in 1..Len(commonWords) : commonWords[i] # messageLower
    IN  IF found /\ Len(matchedTools) > 0
        THEN [content |-> <<textItem(<<"category", matchedPattern.category>>),
                            toolCard("Recommended Tools", matchedTools)>>,
              context |-> [type |-> "", category |-> matchedPattern.category,
                           tools |-> toolNames(matchedTools), hasTools |-> TRUE]]
        ELSE IF general
        THEN [content |-> <<textItem(<<"found", Len(searchResults), msg>>),
                            toolCard("Search Results", searchResults)>>,
              context |-> [type |-> "", category |-> "search",
                           tools |-> toolNames(searchResults), hasTools |-> TRUE]]
        ELSE noResultsResponse(msg)

\* Variant of searchResponse that takes the first matching pattern that has tools
searchResponseFirstWithTools(msg, messageLower, tools) ==
    LET matching == {i \in 1..Len(searchPatterns) :
                        /\ patternTest(searchPatterns[i], msg)
                        /\ Len(patternTools(searchPatterns[i], tools)) > 0}
        found    == matching # {}
        first    == CHOOSE i \in matching : \A j \in matching : i <= j
        matchedPattern == searchPatterns[first]
        matchedTools   == patternTools(matchedPattern, tools)
        searchResults  == slice(SelectSeq(tools, LAMBDA t : searchFilter(t, messageLower)), 3)
        general == /\ Len(messageLower) >= 3
                   /\ \A i \in 1..Len(commonWords) : commonWords[i] # messageLower
    IN  IF found /\ Len(matchedTools) > 0
        THEN [content |-> <<textItem(<<"category", matchedPattern.category>>),
                            toolCard("Recommended Tools", matchedTools)>>,
              context |-> [type |-> "", category |-> matchedPattern.category,
                           tools |-> toolNames(matchedTools), hasTools |-> TRUE]]
        ELSE IF general /\ Len(searchResults) > 0
        THEN [content |-> <<textItem(<<"found", Len(searchResults), msg>>),
                            toolCard("Search Results", searchResults)>>,
              context |-> [type |-> "", category |-> "search",
                           tools |-> toolNames(searchResults), hasTools |-> TRUE]]
        ELSE noResultsResponse(msg)

\* the part of processUserMessage after the import of the catalog
searchResponse(msg, messageLower, tools) ==
    LET matching == {i \in 1..Len(searchPatterns) : patternTest(searchPatterns[i], msg)}
        found    == matching # {}
        first    == CHOOSE i \in matching : \A j \in matching : i <= j
        matchedPattern == searchPatterns[first]
        matchedTools   == patternTools(matchedPattern, tools)
        searchResults  == slice(SelectSeq(tools, LAMBDA t : searchFilter(t, messageLower)), 3)
        general == /\ Len(messageLower) >= 3
                   /\ \A i \in 1..Len(commonWords) : commonWords[i] # messageLower
    IN  IF found /\ Len(matchedTools) > 0
        THEN [content |-> <<textItem(<<"category", matchedPattern.category>>),
                            toolCard("Recommended Tools", matchedTools)>>,
              context |-> [type |-> "", category |-> matchedPattern.category,
                           tools |-> toolNames(matchedTools), hasTools |-> TRUE]]
        ELSE IF general /\ Len(searchResults) > 0
        THEN [content |-> <<textItem(<<"found", Len(searchResults), msg>>),
                            toolCard("Search Results", searchResults)>>,
              context |-> [type |-> "", category |-> "search",
                           tools |-> toolNames(searchResults), hasTools |-> TRUE]]
        ELSE noResultsResponse(msg)

\* Variant of cannedRule that tests the help phrases before the greetings
cannedRuleHelpFirst(messageLower) ==
    IF includesAny(messageLower, helpPhrases) THEN "help"
    ELSE IF includesAny(messageLower, greetings) THEN "greeting"
    ELSE IF includesAny(messageLower, thanksPhrases) THEN "thanks"
    ELSE IF includesAny(messageLower, goodbyePhrases) THEN "goodbye"
    ELSE ""

\* the rule that answers before the catalog is imported, "" when none does
cannedRule(messageLower) ==
    IF includesAny(messageLower, greetings) THEN "greeting"
    ELSE IF includesAny(messageLower, helpPhrases) THEN "help"
    ELSE IF includesAny(messageLower, thanksPhrases) THEN "thanks"
    ELSE IF includesAny(messageLower, goodbyePhrases) THEN "goodbye"
    ELSE ""

\* Variant of processUserMessage that imports the catalog before the canned rules
processUserMessageImportFirst(msg, tools, fails) ==
    LET messageLower == trim(toLowerCase(msg))
        rule == cannedRule(messageLower)
    IN  IF fails
        THEN [response |-> errorResponse, imported |-> TRUE]
        ELSE IF rule # ""
        THEN [response |-> cannedResponse(rule), imported |-> TRUE]
        ELSE [response |-> searchResponse(msg, messageLower, tools), imported |-> TRUE]

\* processUserMessage: the response, and whether the catalog module was imported;
\* a failed import is caught and answered with the apology
processUserMessage(msg, tools, fails) ==
    LET messageLower == trim(toLowerCase(msg))
        rule == cannedRule(messageLower)
    IN  IF rule # ""
        THEN [response |-> cannedResponse(rule), imported |-> FALSE]
        ELSE IF fails
        THEN [response |-> errorResponse, imported |-> TRUE]
        ELSE [response |-> searchResponse(msg, messageLower, tools), imported |-> TRUE]

Messages ==
    {<<"h", "e", "l", "l", "o">>, <<" ", " ", "H", "e", "l", "l", "o", " ", "t", "h", "e", "r", "e", " ">>, <<"H", "E", "Y">>, <<"t", "h", "i", "s">>, <<"h", "e", "l", "p">>, <<"t", "h", "a", "n", "k", "s">>, <<"b", "y", "e">>,
     <<"h", "e", "l", "p", " ", "m", "e", " ", "w", "i", "t", "h", " ", "v", "i", "d", "e", "o">>, <<"m", "a", "r", "k", "e", "t", "i", "n", "g">>, <<"C", "o", "d", "i", "n", "g">>, <<"s", "t", "u", "d", "e", "n", "t">>, <<"x", "y", "z", "1", "2", "3", "n", "o", "t", "f", "o", "u", "n", "d">>,
     <<"l", "e", "g", "a", "l">>, <<"t", "h", "e">>, <<"a", "d">>, <<>>, <<"h", "i", ",", " ", "t", "h", "a", "n", "k", "s", " ", "f", "o", "r", " ", "t", "h", "e", " ", "h", "e", "l", "p">>, <<"t", "h", "a", "n", "k", "s", " ", "f", "o", "r", " ", "t", "h", "e", " ", "h", "e", "l", "p">>,
     <<"t", "h", "a", "n", "k", "s", ",", " ", "b", "y", "e">>, <<"b", "y", "e", " ", "m", "a", "r", "k", "e", "t", "i", "n", "g">>, <<"h", "e", "l", "p", " ", "w", "i", "t", "h", " ", "m", "a", "r", "k", "e", "t", "i", "n", "g">>, <<"s", "i", "m", "p", "l", "e">>,
     <<"b", "o", "t">>, <<"b", "o", "t", " ", "c", "o", "u", "r", "s", "e">>}

\* the catalogs the dispatcher is run over
ChatCatalogs == Catalogs \cup Listings

(***************************************************************************)
(* GET /api/tools: the handler of pages/api/tools.  A query parameter is a *)
(* list: empty when the request does not give it, else the one string.     *)
(* The catalog is the list getTools() resolves with.                       *)
(***************************************************************************)
NoParam == <<>>

\* a parameter of req.query that is undefined or '' is falsy
given(param) == param # NoParam /\ param[1] # <<>>

\* parseInt of a string of digits with an optional leading '-' (the strings of
\* the model hold nothing else)
parseInt(str) ==
    IF str[1] = "-" THEN 0 - DigitsValue(Tail(str)) ELSE DigitsValue(str)

\* Array.prototype.slice(start, end) for integers: a negative index counts from
\* the end, and both are clamped to the array
sliceFrom(arr, start, end) ==
    LET n    == Len(arr)
        from == IF start < 0 THEN Max(n + start, 0) ELSE Min(start, n)
        to   == IF end < 0 THEN Max(n + end, 0) ELSE Min(end, n)
    IN  SubSeq(arr, from + 1, to)

\* the filter of the category parameter
categoryFilter(t, category) ==
    \/ toLowerCase(t.category) = toLowerCase(category)
    \/ t.subcategory # NoSubcategory /\ toLowerCase(t.subcategory) = toLowerCase(category)

\* the filter of the search parameter
apiSearchFilter(t, search) ==
    LET searchLower == toLowerCase(search)
    IN  \/ includes(toLowerCase(t.name), searchLower)
        \/ includes(toLowerCase(t.description), searchLower)
        \/ someTag(t, LAMBDA tag : includes(toLowerCase(tag), searchLower))

ApiCategories == {<<"m", "a", "r", "k", "e", "t", "i", "n", "g">>, <<"A", "n", "a", "l", "y", "t", "i", "c", "s">>, <<"v", "i", "d", "e", "o">>}

ApiSearches == {<<"a", "d">>, <<"E", "N", "T", "E", "R", "P", "R", "I", "S", "E">>}

\* the two filters over the tools and parameters of the model, evaluated once
categoryFilterOf ==
    [t \in ToolPool |-> [c \in ApiCategories |-> categoryFilter(t, c)]]

apiSearchFilterOf ==
    [t \in ToolPool |-> [s \in ApiSearches |-> apiSearchFilter(t, s)]]

\* the tools after the two filters
filterTools(tools, query) ==
    With(IF given(query.category)
         THEN SelectSeq(tools, LAMBDA t : categoryFilterOf[t][query.category[1]])
         ELSE tools,
         LAMBDA byCategory :
             IF given(query.search)
             THEN SelectSeq(byCategory, LAMBDA t : apiSearchFilterOf[t][query.search[1]])
             ELSE byCategory)

methodNotAllowed == [status |-> 405, data |-> <<>>, meta |-> <<>>]

failedToFetch == [status |-> 500, data |-> <<>>, meta |-> <<>>]

limitOf(query) == parseInt(IF query.limit = NoParam THEN <<"1", "0", "0">> ELSE query.limit[1])

offsetOf(query) == parseInt(IF query.offset = NoParam THEN <<"0">> ELSE query.offset[1])

\* Variant of handler that hands limitNum to slice as its end
handlerSliceToLimit(req, tools, fails) ==
    IF req.method # "GET" THEN methodNotAllowed
    ELSE IF fails THEN failedToFetch
    ELSE With(filterTools(tools, req.query), LAMBDA filtered :
            LET limitNum  == limitOf(req.query)
                offsetNum == offsetOf(req.query)
                total     == Len(filtered)
            IN  [status |-> 200,
                 data   |-> sliceFrom(filtered, offsetNum, limitNum),
                 meta   |-> [total |-> total, limit |-> limitNum, offset |-> offsetNum,
                             hasMore |-> offsetNum + limitNum < total]])

\* handler: the response sent; fails: getTools() rejects
handler(req, tools, fails) ==
    IF req.method # "GET" THEN methodNotAllowed
    ELSE IF fails THEN failedToFetch
    ELSE With(filterTools(tools, req.query), LAMBDA filtered :
            LET limitNum  == limitOf(req.query)
                offsetNum == offsetOf(req.query)
                total     == Len(filtered)
            IN  [status |-> 200,
                 data   |-> sliceFrom(filtered, offsetNum, offsetNum + limitNum),
                 meta   |-> [total |-> total, limit |-> limitNum, offset |-> offsetNum,
                             hasMore |-> offsetNum + limitNum < total]])

\* the numbers a request gives as limit and offset, as the strings of the query
PageStrings == {<<DigitChars[n + 1]>> : n \in 0..MaxPage}

Queries ==
    {[category |-> c, search |-> s, limit |-> l, offset |-> o] :
        c \in {NoParam, <<<<>>>>} \cup {<<x>> : x \in ApiCategories},
        s \in {NoParam} \cup {<<x>> : x \in ApiSearches},
        l \in {NoParam} \cup {<<x>> : x \in PageStrings},
        o \in {NoParam, <<<<"-", "1">>>>} \cup {<<x>> : x \in PageStrings}}

Requests ==
    {[method |-> "GET", query |-> q] : q \in Queries}
        \cup {[method |-> "POST",
               query |-> [category |-> NoParam, search |-> NoParam,
                          limit |-> NoParam, offset |-> NoParam]]}


(***************************************************************************)
(* ExpertVerificationSystem.verifyExpert.  The rating of a profile is the  *)
(* double of its decimal with one digit, kept as its tenths; the lists of  *)
(* a profile are sequences of strings, and a social link that was left     *)
(* out is not in the domain of socialLinks.                                *)
(***************************************************************************)
\* the double of expertProfile.rating
ratingOf(profile) == dividedBy(fromInteger(profile.rating), 10)

\* Object.values(socialLinks).filter(Boolean).length: the links that are not empty
socialLinkCount(profile) ==
    Cardinality({k \in DOMAIN profile.socialLinks :
                     profile.socialLinks[k] # <<>>})

\* calculateVerificationScore
calculateVerificationScore(profile) ==
    LET experience == mathMin(positive(dividedBy(fromInteger(
                                  profile.yearsOfExperience), 20)),
                              positive(Double0_3))
        certification == mathMin(positive(times(Double0_05,
                                     Len(profile.certifications))),
                                 positive(Double0_2))
        review == mathMin(positive(dividedBy(fromInteger(profile.reviews), 100)),
                          positive(Double0_2))
        rated == mathMin(halved(signedMinus(ratingOf(profile), fromInteger(3))),
                         positive(Double0_2))
        social == mathMin(positive(times(Double0_025, socialLinkCount(profile))),
                          positive(Double0_1))
        score == signedPlus(signedPlus(signedPlus(signedPlus(signedPlus(
                     positive(Double0), experience), certification), review),
                     rated), social)
    IN  mathMin(score, positive(Double1))

determineVerificationLevel(score) ==
    IF atLeast(score, positive(Double0_9)) THEN <<"p", "r", "e", "m", "i", "u", "m">>
    ELSE IF atLeast(score, positive(Double0_7)) THEN <<"a", "d", "v", "a", "n", "c", "e", "d">>
    ELSE <<"b", "a", "s", "i", "c">>

\* the badges of the list for which the test holds, in the order of the list
RECURSIVE pushed(_)
pushed(tests) ==
    IF tests = <<>> THEN <<>>
    ELSE (IF tests[1].test THEN <<tests[1].badge>> ELSE <<>>) \o pushed(Tail(tests))

generateBadges(profile, score) ==
    pushed(<<[test |-> atLeast(score, positive(Double0_9)), badge |-> <<"V", "e", "r", "i", "f", "i", "e", "d", " ", "E", "x", "p", "e", "r", "t">>],
             [test |-> profile.yearsOfExperience >= 10, badge |-> <<"V", "e", "t", "e", "r", "a", "n">>],
             [test |-> Len(profile.certifications) >= 3, badge |-> <<"C", "e", "r", "t", "i", "f", "i", "e", "d">>],
             [test |-> profile.reviews >= 50, badge |-> <<"W", "e", "l", "l", "-", "R", "e", "v", "i", "e", "w", "e", "d">>],
             [test |-> ~greater(Double4_8, ratingOf(profile)),
              badge |-> <<"T", "o", "p", " ", "R", "a", "t", "e", "d">>],
             [test |-> <<"A", "I">> \in Range(profile.expertise),
              badge |-> <<"A", "I", " ", "S", "p", "e", "c", "i", "a", "l", "i", "s", "t">>],
             [test |-> <<"M", "a", "c", "h", "i", "n", "e", " ", "L", "e", "a", "r", "n", "i", "n", "g">> \in Range(profile.expertise),
              badge |-> <<"M", "L", " ", "E", "x", "p", "e", "r", "t">>],
             [test |-> <<"A", "u", "t", "o", "m", "a", "t", "i", "o", "n">> \in Range(profile.expertise),
              badge |-> <<"A", "u", "t", "o", "m", "a", "t", "i", "o", "n", " ", "P", "r", "o">>]>>)

verifyExpert(profile) ==
    LET verificationScore == calculateVerificationScore(profile)
    IN  [verified |-> atLeast(verificationScore, positive(Double0_7)),
         confidence |-> verificationScore,
         verificationLevel |-> determineVerificationLevel(verificationScore),
         badges |-> generateBadges(profile, verificationScore)]
(***************************************************************************)
(* The arrays a call works on.  Array.prototype.map, filter and slice      *)
(* return a new array and leave their receiver as it was;                  *)
(* Array.prototype.sort sorts its receiver where it stands.  The arrays of *)
(* a call are the fields of a record: tools is the array of @/data/tools,  *)
(* the others are the locals of the call.                                  *)
(***************************************************************************)

\* Variant of scoredToolsSorted that sorts the array tools the scores were mapped from
scoredToolsSortedAtSource(arrays) ==
    With(sort(arrays.scoredTools, compareScore),
         LAMBDA sorted :
    [arrays EXCEPT !.tools = Array([i \in 1..Len(sorted) |-> sorted[i].tool])])

\* scoredTools.sort((a, b) => b.score - a.score): the receiver is scoredTools
scoredToolsSorted(arrays) ==
    [arrays EXCEPT !.scoredTools = sort(@, compareScore)]

\* the arrays of generateRecommendations when it returns
arraysOfGenerateRecommendations(ctx, lim, tools) ==
    With(Array([i \in 1..Len(tools) |-> calculateToolScore(tools[i], ctx, tools)]),
         LAMBDA scoredTools :
    With(scoredToolsSorted([tools |-> tools, scoredTools |-> scoredTools]),
         LAMBDA arrays :
    [tools              |-> arrays.tools,
     scoredTools        |-> arrays.scoredTools,
     topRecommendations |-> slice(arrays.scoredTools, lim)]))

\* scoredStacks.sort((a, b) => b.confidence - a.confidence): the receiver is scoredStacks
scoredStacksSorted(arrays) ==
    [arrays EXCEPT !.scoredStacks = sort(@, compareConfidence)]

\* the arrays of generateToolStack when it returns: the catalog as
\* generateRecommendations left it, the tools found in it, the stacks built
\* and the scored stacks
arraysOfGenerateToolStack(profile, uc, bud, tools) ==
    With(arraysOfGenerateRecommendations(contextOf(profile), 10, tools).tools,
         LAMBDA imported :
    With(recommendedTools(generateRecommendations(contextOf(profile), 10, imported), imported),
         LAMBDA pool :
    With(buildStackConfigurations(pool, profile, uc, bud),
         LAMBDA built :
    scoredStacksSorted([tools            |-> imported,
                        recommendedTools |-> pool,
                        stacks           |-> built,
                        scoredStacks     |-> Array([i \in 1..Len(built) |->
                                                 scoreStack(built[i], profile)])]))))


(***************************************************************************)
(* VoiceSearchManager.  The browser's recognizer is absent where the       *)
(* browser has no speech recognition; otherwise it is idle, running after  *)
(* a start() that returned, and ending after stop() or an error, until its *)
(* end event.  start() throws when the recognizer is not idle, and may     *)
(* throw when it is.  A callback is known by its name; an invocation is    *)
(* the callback with its argument.  Confidences are in hundredths.         *)
(***************************************************************************)
\* no callback: the optional onError left out, and the fields before the first call
NoCallback == "undefined"

\* the handler that ran last, its arguments, and whether start() threw in it
Handled(name, arguments, threw) ==
    [handler |-> name, arguments |-> arguments, threw |-> threw]

\* no handler of the manager has run
NoHandler == Handled("none", <<>>, FALSE)

Invocation(callback, argument) == [callback |-> callback, argument |-> argument]

\* callback?.(argument): nothing when the callback is undefined
optionalCall(callback, argument) ==
    IF callback = NoCallback THEN <<>> ELSE <<Invocation(callback, argument)>>

RECURSIVE transcriptOf(_, _, _)
\* the transcripts of results[i..] that are final, or that are not, joined
transcriptOf(results, i, final) ==
    IF i > Len(results) THEN <<>>
    ELSE (IF results[i].isFinal = final THEN results[i].transcript ELSE <<>>)
         \o transcriptOf(results, i + 1, final)

\* recognition.onresult: the invocations it makes; resultIndex counts from 0
onresult(event, onResult) ==
    LET finalTranscript == transcriptOf(event.results, event.resultIndex + 1, TRUE)
        interimTranscript == transcriptOf(event.results, event.resultIndex + 1, FALSE)
    IN  IF finalTranscript # <<>>
        THEN optionalCall(onResult,
                 [text |-> finalTranscript,
                  confidence |-> event.results[Len(event.results)].confidence,
                  isFinal |-> TRUE])
        ELSE IF interimTranscript # <<>>
        THEN optionalCall(onResult,
                 [text |-> interimTranscript, confidence |-> 50, isFinal |-> FALSE])
        ELSE <<>>

\* Variant of startListening that leaves isListening set when start() throws
startListeningStillListening(manager, onResult, onError, throws) ==
    IF ~manager.isSupported
    THEN [manager EXCEPT
             !.invoked = optionalCall(onError,
                             <<"V", "o", "i", "c", "e", " ", "r", "e", "c", "o", "g", "n", "i", "t", "i", "o", "n", " ", "i", "s", " ", "n", "o", "t", " ", "s", "u", "p", "p", "o", "r", "t", "e", "d", " ", "i", "n", " ", "t", "h", "i", "s", " ", "b", "r", "o", "w", "s", "e", "r">>)]
    ELSE [manager EXCEPT
             !.onResultCallback = onResult,
             !.onErrorCallback = onError,
             !.isListening = TRUE,
             !.invoked = IF throws
                         THEN optionalCall(onError, <<"F", "a", "i", "l", "e", "d", " ", "t", "o", " ", "s", "t", "a", "r", "t", " ", "v", "o", "i", "c", "e", " ", "r", "e", "c", "o", "g", "n", "i", "t", "i", "o", "n">>)
                         ELSE <<>>]

\* startListening on the fields of the manager; throws: whether start() throws
startListening(manager, onResult, onError, throws) ==
    IF ~manager.isSupported
    THEN [manager EXCEPT
             !.invoked = optionalCall(onError,
                             <<"V", "o", "i", "c", "e", " ", "r", "e", "c", "o", "g", "n", "i", "t", "i", "o", "n", " ", "i", "s", " ", "n", "o", "t", " ", "s", "u", "p", "p", "o", "r", "t", "e", "d", " ", "i", "n", " ", "t", "h", "i", "s", " ", "b", "r", "o", "w", "s", "e", "r">>)]
    ELSE [manager EXCEPT
             !.onResultCallback = onResult,
             !.onErrorCallback = onError,
             !.isListening = ~throws,
             !.invoked = IF throws
                         THEN optionalCall(onError, <<"F", "a", "i", "l", "e", "d", " ", "t", "o", " ", "s", "t", "a", "r", "t", " ", "v", "o", "i", "c", "e", " ", "r", "e", "c", "o", "g", "n", "i", "t", "i", "o", "n">>)
                         ELSE <<>>]

\* stopListening: whether it calls recognition.stop()
stopListeningStops(manager) == manager.recognition # "absent" /\ manager.isListening

(***************************************************************************)
(* The chat components AIAssistantButton and PremiumAIAssistant.  The      *)
(* state of a chat is its list of messages, the text of its input, its     *)
(* loading flag and the sends whose answer has not arrived; a handler is a *)
(* function of that state.  A message keeps the number of the send that    *)
(* appended it, 0 for a message no send appended, in place of its id and   *)
(* its timestamp.  The texts the assistant generates are kept by their     *)
(* kind, as the responses of processUserMessage are; the metadata of a     *)
(* message of PremiumAIAssistant is its confidence, in thousandths.        *)
(***************************************************************************)
\* the array q without its i-th element
without(q, i) == SubSeq(q, 1, i - 1) \o SubSeq(q, i + 1, Len(q))

Message(sender, content, send) == [sender |-> sender, content |-> content, send |-> send]

\* Variant of handleSendMessage that sends while a send is in flight
handleSendMessageWhileLoading(ui) ==
    LET messageText == trim(ui.inputValue)
    IN  IF messageText = <<>>
        THEN ui
        ELSE [ui EXCEPT
                 !.messages = Append(@, Message("user", <<textItem(messageText)>>,
                                                ui.sends + 1)),
                 !.inputValue = <<>>,
                 !.isLoading = TRUE,
                 !.inFlight = Append(@, [send |-> ui.sends + 1, text |-> messageText]),
                 !.sends = @ + 1]

\* AIAssistantButton.handleSendMessage up to its await
handleSendMessage(ui) ==
    LET messageText == trim(ui.inputValue)
    IN  IF messageText = <<>> \/ ui.isLoading
        THEN ui
        ELSE [ui EXCEPT
                 !.messages = Append(@, Message("user", <<textItem(messageText)>>,
                                                ui.sends + 1)),
                 !.inputValue = <<>>,
                 !.isLoading = TRUE,
                 !.inFlight = Append(@, [send |-> ui.sends + 1, text |-> messageText]),
                 !.sends = @ + 1]

\* Variant of handleSendMessageResumed that leaves the loading flag set
handleSendMessageResumedStillLoading(ui, i, out) ==
    [ui EXCEPT
        !.messages = Append(@, Message("assistant", out.response.content,
                                       ui.inFlight[i].send)),
        !.inFlight = without(@, i)]

\* AIAssistantButton.handleSendMessage after its await: out is what processUserMessage
\* resolved with, which never rejects, so that the catch block is not entered
handleSendMessageResumed(ui, i, out) ==
    [ui EXCEPT
        !.messages = Append(@, Message("assistant", out.response.content,
                                       ui.inFlight[i].send)),
        !.isLoading = FALSE,
        !.inFlight = without(@, i)]

premiumGreetings ==
    <<<<"h", "i">>, <<"h", "e", "l", "l", "o">>, <<"h", "e", "y">>, <<"g", "o", "o", "d", " ", "m", "o", "r", "n", "i", "n", "g">>, <<"g", "o", "o", "d", " ", "a", "f", "t", "e", "r", "n", "o", "o", "n">>, <<"g", "o", "o", "d", " ", "e", "v", "e", "n", "i", "n", "g">>>>

\* a message of the assistant of PremiumAIAssistant
premiumAnswer(kind, confidence, tools, send) ==
    Message("assistant", [text |-> <<kind>>, confidence |-> confidence, tools |-> tools],
            send)

\* PremiumAIAssistant.processUserMessage up to its await, or to its end where it
\* answers without one; userProfile is <<>> where the component has none
Premium_processUserMessage(ui, msg, userProfile) ==
    LET messageLower == trim(toLowerCase(msg))
        send == ui.sends + 1
        asked == [ui EXCEPT
                     !.messages = Append(@, Message("user", [text |-> msg], send)),
                     !.isLoading = TRUE,
                     !.sends = send]
        answered(kind, confidence) ==
            [asked EXCEPT
                !.messages = Append(@, premiumAnswer(kind, confidence, <<>>, send)),
                !.isLoading = FALSE]
    IN  IF includesAny(messageLower, premiumGreetings) THEN answered("greeting", 950)
        ELSE IF includes(messageLower, <<"h", "e", "l", "p">>) \/ includes(messageLower, <<"w", "h", "a", "t", " ", "c", "a", "n", " ", "y", "o", "u", " ", "d", "o">>)
        THEN answered("help", 900)
        ELSE IF DOMAIN userProfile # {}
        THEN [asked EXCEPT !.inFlight = Append(@, [send |-> send, text |-> msg])]
        ELSE answered("fallback", 500)

\* PremiumAIAssistant.handleSubmit
handleSubmit(ui, userProfile) ==
    IF trim(ui.inputValue) # <<>> /\ ~ui.isLoading
    THEN [Premium_processUserMessage(ui, ui.inputValue, userProfile)
             EXCEPT !.inputValue = <<>>]
    ELSE ui

\* PremiumAIAssistant.processUserMessage after generateRecommendations settled:
\* the chat, and how many times the catalog was imported
Premium_processUserMessageResumed(ui, i, ctx, tools, fails) ==
    LET send == ui.inFlight[i].send
        answered(answer) ==
            [ui EXCEPT
                !.messages = Append(@, answer),
                !.isLoading = FALSE,
                !.inFlight = without(@, i)]
    IN  IF fails
        THEN [ui |-> answered(premiumAnswer("apology", 300, <<>>, send)), imported |-> 1]
        ELSE With(generateRecommendations(ctx, 3, tools), LAMBDA recommendations :
             IF Len(recommendations) > 0
             THEN [ui |-> answered(premiumAnswer("recommendations",
                                       IF recommendations[1].confidence = 0 THEN 700
                                       ELSE recommendations[1].confidence,
                                       toolNames(recommendedTools(recommendations, tools)),
                                       send)),
                   imported |-> 2]
             ELSE [ui |-> answered(premiumAnswer("no results", 600, <<>>, send)),
                   imported |-> 1])

\* PremiumAIAssistant.handleToolSelect
handleToolSelect(ui, t) ==
    [ui EXCEPT !.messages = Append(@, premiumAnswer("great choice", 800, <<t>>, 0))]

(***************************************************************************)
(* The login page and AuthProvider.login.  A JavaScript value that the     *)
(* code tests for truth is kept with its type: an object is truthy         *)
(* whatever its fields hold, a boolean is its value.                       *)
(***************************************************************************)
Object(fields) == [type |-> "object", fields |-> fields]

Boolean(b) == [type |-> "boolean", value |-> b]

Null == [type |-> "null"]

\* if (value) of JavaScript
truthy(value) ==
    IF value.type = "boolean" THEN value.value
    ELSE IF value.type = "null" THEN FALSE
    ELSE TRUE

\* data.error || 'Login failed'
errorOr(data, otherwise) ==
    IF "error" \in DOMAIN data /\ data.error # <<>> THEN data.error ELSE otherwise

\* AuthProvider.login once fetch has settled: the value resolved with and the user
\* after it.  settled.kind: json (a response, with its ok and its body) or throws
login(settled, userBefore) ==
    IF settled.kind = "throws"
    THEN [value |-> Object([success |-> FALSE, error |-> <<"A", "n", " ", "u", "n", "e", "x", "p", "e", "c", "t", "e", "d", " ", "e", "r", "r", "o", "r", " ", "o", "c", "c", "u", "r", "r", "e", "d">>]),
          user |-> userBefore]
    ELSE IF ~settled.ok
    THEN [value |-> Object([success |-> FALSE,
                            error |-> errorOr(settled.data, <<"L", "o", "g", "i", "n", " ", "f", "a", "i", "l", "e", "d">>)]),
          user |-> userBefore]
    ELSE [value |-> Object([success |-> TRUE]), user |-> settled.data.user]

\* Login.handleSubmit after the await: the pushes of the router and the errors
handleSubmitAfterLogin(success, errorsBefore) ==
    IF truthy(success)
    THEN [pushed |-> <<<<"/">>>>, errors |-> errorsBefore]
    ELSE [pushed |-> <<>>, errors |-> <<<<"I", "n", "v", "a", "l", "i", "d", " ", "e", "m", "a", "i", "l", " ", "o", "r", " ", "p", "a", "s", "s", "w", "o", "r", "d">>>>]
(***************************************************************************)
(* The specifications.  Each draws the arguments of a call in its initial  *)
(* state and has one action per method called; the variables of the other  *)
(* specifications stay idle.                                               *)
(***************************************************************************)
IdleCatalog == catalog = <<>> /\ importFails = FALSE /\ imports = 0

NoPrices ==
    [AIRecommendationEngine |-> NoCall, ROICalculator |-> NoCall, ToolStackBuilder |-> NoCall]

IdlePrice == pricing = <<>> /\ price = NoPrices

IdleScore ==
    tool = <<>> /\ scored = NoCall /\ prevContext = <<>> /\ prevScored = NoCall

IdleRecs == limit = 0 /\ recs = NoCall

IdleStacks == useCase = <<>> /\ budget = 0 /\ stacks = NoCall

IdleROI == investment = 0 /\ returns = 0 /\ roi = NoCall

IdleChat == message = <<>> /\ response = NoCall

IdleApi == request = <<>> /\ httpResponse = NoCall

IdleToolROI == stackTools = <<>> /\ toolROI = NoCall /\ stackROI = NoCall

IdleEngines ==
    /\ IdleCatalog /\ context = <<>> /\ IdlePrice /\ IdleScore /\ IdleRecs /\ IdleStacks
    /\ IdleROI /\ IdleChat /\ IdleApi /\ IdleToolROI

IdleVoice ==
    /\ isSupported = FALSE /\ isListening = FALSE /\ recognition = "absent"
    /\ onResultCallback = NoCallback /\ onErrorCallback = NoCallback
    /\ invoked = <<>> /\ handled = NoHandler

IdleLogin ==
    /\ formData = [email |-> <<>>, password |-> <<>>] /\ errors = <<>>
    /\ loginIsLoading = FALSE /\ user = Null /\ route = <<>>
    /\ pendingLogins = <<>> /\ submitted = NoCall

IdleExpert == expertProfile = <<>> /\ verification = NoCall

IdleChatUI ==
    /\ component = "" /\ messages = <<>> /\ inputValue = <<>> /\ isLoading = FALSE
    /\ inFlight = <<>> /\ sends = 0

IdlePages == IdleVoice /\ IdleLogin /\ IdleExpert /\ IdleChatUI

(***************************************************************************)
(* SpecPrice: the three copies of extractPrice.                            *)
(***************************************************************************)
InitPrice ==
    /\ IdlePages
    /\ pricing \in PricingInputs
    /\ price = NoPrices
    /\ IdleCatalog /\ context = <<>> /\ IdleScore /\ IdleRecs /\ IdleStacks
    /\ IdleROI /\ IdleChat
    /\ IdleApi
    /\ IdleToolROI

EngineExtractPrice ==
    /\ price.AIRecommendationEngine.status = "none"
    /\ price' = [price EXCEPT !.AIRecommendationEngine = Returned("returned", extractPrice(pricing))]
    /\ UNCHANGED pageVars
    /\ UNCHANGED <<catalog, importFails, imports, pricing, tool, context, scored,
                   prevContext, prevScored, limit, recs, useCase, budget, stacks,
                   investment, returns, roi, message, response,
                   request, httpResponse,
                   stackTools, toolROI, stackROI>>

ROIExtractPrice ==
    /\ price.ROICalculator.status = "none"
    /\ price' = [price EXCEPT !.ROICalculator = Returned("returned", ROICalculator_extractPrice(pricing))]
    /\ UNCHANGED pageVars
    /\ UNCHANGED <<catalog, importFails, imports, pricing, tool, context, scored,
                   prevContext, prevScored, limit, recs, useCase, budget, stacks,
                   investment, returns, roi, message, response,
                   request, httpResponse,
                   stackTools, toolROI, stackROI>>

StackExtractPrice ==
    /\ price.ToolStackBuilder.status = "none"
    /\ price' = [price EXCEPT !.ToolStackBuilder = Returned("returned", ToolStackBuilder_extractPrice(pricing))]
    /\ UNCHANGED pageVars
    /\ UNCHANGED <<catalog, importFails, imports, pricing, tool, context, scored,
                   prevContext, prevScored, limit, recs, useCase, budget, stacks,
                   investment, returns, roi, message, response,
                   request, httpResponse,
                   stackTools, toolROI, stackROI>>

NextPrice == EngineExtractPrice \/ ROIExtractPrice \/ StackExtractPrice

SpecPrice == InitPrice /\ [][NextPrice]_vars

(***************************************************************************)
(* SpecScore: calculateToolScore of a tool of the catalog, and again for   *)
(* the same tool and a profile with another monthly budget.                *)
(***************************************************************************)
ScoreCatalog == <<PerfectTool, FreeTool, FreeToolTwin, QuoteTool, CheapTool>>

InitScore ==
    /\ IdlePages
    /\ catalog = ScoreCatalog /\ importFails = FALSE /\ imports = 0
    /\ tool \in Range(catalog)
    /\ context \in Contexts
    /\ scored = NoCall /\ prevContext = <<>> /\ prevScored = NoCall
    /\ IdlePrice /\ IdleRecs /\ IdleStacks /\ IdleROI /\ IdleChat
    /\ IdleApi
    /\ IdleToolROI

CalculateToolScore ==
    /\ scored.status = "none"
    /\ scored' = Returned("calculateToolScore", calculateToolScore(tool, context, catalog))
    /\ UNCHANGED pageVars
    /\ UNCHANGED <<catalog, importFails, imports, pricing, price, tool, context,
                   prevContext, prevScored, limit, recs, useCase, budget, stacks,
                   investment, returns, roi, message, response,
                   request, httpResponse,
                   stackTools, toolROI, stackROI>>

ScoreWithBudget(monthly) ==
    /\ scored.status # "none"
    /\ monthly # context.userProfile.budget.monthly
    /\ context' = [context EXCEPT !.userProfile.budget.monthly = monthly]
    /\ prevContext' = context
    /\ prevScored' = scored
    /\ scored' = Returned("calculateToolScore", calculateToolScore(tool, context', catalog))
    /\ UNCHANGED pageVars
    /\ UNCHANGED <<catalog, importFails, imports, pricing, price, tool,
                   limit, recs, useCase, budget, stacks,
                   investment, returns, roi, message, response,
                   request, httpResponse,
                   stackTools, toolROI, stackROI>>

NextScore == CalculateToolScore \/ \E monthly \in MonthlyBudgets : ScoreWithBudget(monthly)

SpecScore == InitScore /\ [][NextScore]_vars

(***************************************************************************)
(* SpecRecommend: generateRecommendations over a catalog.                  *)
(***************************************************************************)
Limits == (-1)..(MaxCatalog + 1)

InitRecommend ==
    /\ IdlePages
    /\ catalog \in Catalogs /\ importFails \in BOOLEAN /\ imports = 0
    /\ context \in {contextOf(p) : p \in RankingProfiles}
    /\ limit \in Limits
    /\ recs = NoCall
    /\ IdlePrice /\ IdleScore /\ IdleStacks /\ IdleROI /\ IdleChat
    /\ IdleApi
    /\ IdleToolROI

GenerateRecommendations ==
    /\ recs.status = "none"
    /\ imports' = imports + 1
    /\ recs' = IF importFails THEN Returned("rejected", <<>>)
               ELSE Returned("resolved", generateRecommendations(context, limit, catalog))
    /\ UNCHANGED pageVars
    /\ UNCHANGED <<catalog, importFails, pricing, price, tool, context, scored,
                   prevContext, prevScored, limit, useCase, budget, stacks,
                   investment, returns, roi, message, response,
                   request, httpResponse,
                   stackTools, toolROI, stackROI>>

NextRecommend == GenerateRecommendations

SpecRecommend == InitRecommend /\ [][NextRecommend]_vars

(***************************************************************************)
(* SpecStack: generateToolStack over a catalog.                            *)
(***************************************************************************)
InitStack ==
    /\ IdlePages
    /\ catalog \in StackCatalogs /\ importFails \in BOOLEAN /\ imports = 0
    /\ context \in {contextOf(p) : p \in StackProfiles}
    /\ useCase \in UseCases
    /\ budget \in Budgets
    /\ stacks = NoCall
    /\ IdlePrice /\ IdleScore /\ IdleRecs /\ IdleROI /\ IdleChat
    /\ IdleApi
    /\ IdleToolROI

\* both generateToolStack and the generateRecommendations it calls import the catalog
GenerateToolStack ==
    /\ stacks.status = "none"
    /\ imports' = IF importFails THEN imports + 1 ELSE imports + 2
    /\ stacks' = IF importFails THEN Returned("rejected", <<>>)
                 ELSE Returned("resolved",
                          generateToolStack(context.userProfile, useCase, budget, catalog))
    /\ UNCHANGED pageVars
    /\ UNCHANGED <<catalog, importFails, pricing, price, tool, context, scored,
                   prevContext, prevScored, limit, recs, useCase, budget,
                   investment, returns, roi, message, response,
                   request, httpResponse,
                   stackTools, toolROI, stackROI>>

NextStack == GenerateToolStack

SpecStack == InitStack /\ [][NextStack]_vars

(***************************************************************************)
(* SpecROI: calculateROIMetrics and calculatePaybackPeriod.                *)
(***************************************************************************)
InitROI ==
    /\ IdlePages
    /\ investment \in Amounts
    /\ returns \in AnnualReturns
    /\ roi = NoCall
    /\ IdleCatalog /\ context = <<>> /\ IdlePrice /\ IdleScore /\ IdleRecs
    /\ IdleStacks /\ IdleChat
    /\ IdleApi
    /\ IdleToolROI

CalculateROIMetrics ==
    /\ roi.status = "none"
    /\ roi' = Returned("calculateROIMetrics", calculateROIMetrics(investment, returns))
    /\ UNCHANGED pageVars
    /\ UNCHANGED <<catalog, importFails, imports, pricing, price, tool, context, scored,
                   prevContext, prevScored, limit, recs, useCase, budget, stacks,
                   investment, returns, message, response,
                   request, httpResponse,
                   stackTools, toolROI, stackROI>>

CalculatePaybackPeriod ==
    /\ roi.status = "none"
    /\ roi' = Returned("calculatePaybackPeriod",
                       [paybackPeriod |-> calculatePaybackPeriod(investment, returns)])
    /\ UNCHANGED pageVars
    /\ UNCHANGED <<catalog, importFails, imports, pricing, price, tool, context, scored,
                   prevContext, prevScored, limit, recs, useCase, budget, stacks,
                   investment, returns, message, response,
                   request, httpResponse,
                   stackTools, toolROI, stackROI>>

NextROI == CalculateROIMetrics \/ CalculatePaybackPeriod

SpecROI == InitROI /\ [][NextROI]_vars

(***************************************************************************)
(* SpecChat: processUserMessage.                                           *)
(***************************************************************************)
InitChat ==
    /\ IdlePages
    /\ catalog \in ChatCatalogs /\ importFails \in BOOLEAN /\ imports = 0
    /\ message \in Messages
    /\ response = NoCall
    /\ context = <<>> /\ IdlePrice /\ IdleScore /\ IdleRecs /\ IdleStacks /\ IdleROI
    /\ IdleApi
    /\ IdleToolROI

ProcessUserMessage ==
    /\ response.status = "none"
    /\ LET out == processUserMessage(message, catalog, importFails)
       IN  /\ response' = Returned("resolved", out.response)
           /\ imports' = IF out.imported THEN imports + 1 ELSE imports
    /\ UNCHANGED pageVars
    /\ UNCHANGED <<catalog, importFails, pricing, price, tool, context, scored,
                   prevContext, prevScored, limit, recs, useCase, budget, stacks,
                   investment, returns, roi, message,
                   request, httpResponse,
                   stackTools, toolROI, stackROI>>

NextChat == ProcessUserMessage

SpecChat == InitChat /\ [][NextChat]_vars


(***************************************************************************)
(* SpecApi: the handler of GET /api/tools.                                 *)
(***************************************************************************)
InitApi ==
    /\ IdlePages
    /\ catalog \in Catalogs /\ importFails \in BOOLEAN /\ imports = 0
    /\ request \in Requests
    /\ httpResponse = NoCall
    /\ context = <<>> /\ IdlePrice /\ IdleScore /\ IdleRecs /\ IdleStacks /\ IdleROI
    /\ IdleChat
    /\ IdleToolROI

Handler ==
    /\ httpResponse.status = "none"
    /\ httpResponse' = Returned("sent", handler(request, catalog, importFails))
    /\ imports' = IF request.method = "GET" THEN imports + 1 ELSE imports
    /\ UNCHANGED pageVars
    /\ UNCHANGED <<catalog, importFails, pricing, price, tool, context, scored,
                   prevContext, prevScored, limit, recs, useCase, budget, stacks,
                   investment, returns, roi, message, response, request,
                   stackTools, toolROI, stackROI>>

NextApi == Handler

SpecApi == InitApi /\ [][NextApi]_vars

(***************************************************************************)
(* SpecToolROI: calculateToolROI and calculateStackROI.  The tool of the   *)
(* first call is the first of the tools of the second, any tool when there *)
(* are none.                                                               *)
(***************************************************************************)
InitToolROI ==
    /\ IdlePages
    /\ context \in {contextOf(p) : p \in ROIProfiles}
    /\ stackTools \in Catalogs
    /\ tool \in (IF Len(stackTools) = 0 THEN ToolPool ELSE {stackTools[1]})
    /\ toolROI = NoCall /\ stackROI = NoCall
    /\ IdleCatalog /\ pricing = <<>> /\ price = NoPrices
    /\ scored = NoCall /\ prevContext = <<>> /\ prevScored = NoCall
    /\ IdleRecs /\ IdleStacks /\ IdleROI /\ IdleChat /\ IdleApi

CalculateToolROI ==
    /\ toolROI.status = "none"
    /\ toolROI' = Returned("calculateToolROI", calculateToolROI(tool, context.userProfile))
    /\ UNCHANGED pageVars
    /\ UNCHANGED <<catalog, importFails, imports, pricing, price, tool, context, scored,
                   prevContext, prevScored, limit, recs, useCase, budget, stacks,
                   investment, returns, roi, message, response, request, httpResponse,
                   stackTools, stackROI>>

CalculateStackROI ==
    /\ stackROI.status = "none"
    /\ stackROI' = Returned("calculateStackROI",
                            ROICalculator_calculateStackROI(stackTools, context.userProfile))
    /\ UNCHANGED pageVars
    /\ UNCHANGED <<catalog, importFails, imports, pricing, price, tool, context, scored,
                   prevContext, prevScored, limit, recs, useCase, budget, stacks,
                   investment, returns, roi, message, response, request, httpResponse,
                   stackTools, toolROI>>

NextToolROI == CalculateToolROI \/ CalculateStackROI

SpecToolROI == InitToolROI /\ [][NextToolROI]_vars


(***************************************************************************)
(* SpecCalls: calls of generateRecommendations, generateToolStack,         *)
(* calculateToolROI and calculateStackROI one after another, in any order  *)
(* and any number of times, over one catalog and one UserProfile.  Each    *)
(* call leaves the catalog as its arrays say; the import of the catalog    *)
(* succeeds, and the calls that import stop after MaxImports imports.      *)
(***************************************************************************)
CallLimits == {1, MaxCatalog}

CallUseCases == {<<"m", "a", "r", "k", "e", "t", "i", "n", "g">>, <<"C", "o", "d", "i", "n", "g">>}

\* the catalogs of the sequences of calls: three of the tools, in any order
CallCatalogs == {c \in Catalogs : Range(c) \subseteq {PerfectTool, FreeTool, CheapTool}}

InitCalls ==
    /\ IdlePages
    /\ catalog \in CallCatalogs /\ importFails = FALSE /\ imports = 0
    /\ context \in {contextOf(p) : p \in StackProfiles}
    /\ IdlePrice /\ IdleScore /\ IdleRecs /\ IdleStacks /\ IdleROI /\ IdleChat
    /\ IdleApi
    /\ IdleToolROI

CallGenerateRecommendations(lim) ==
    /\ imports + 1 <= MaxImports
    /\ imports' = imports + 1
    /\ limit' = lim
    /\ recs' = Returned("resolved", generateRecommendations(context, lim, catalog))
    /\ catalog' = arraysOfGenerateRecommendations(context, lim, catalog).tools
    /\ UNCHANGED pageVars
    /\ UNCHANGED <<importFails, pricing, price, tool, context, scored,
                   prevContext, prevScored, useCase, budget, stacks,
                   investment, returns, roi, message, response,
                   request, httpResponse,
                   stackTools, toolROI, stackROI>>

CallGenerateToolStack(uc, bud) ==
    /\ imports + 2 <= MaxImports
    /\ imports' = imports + 2
    /\ useCase' = uc
    /\ budget' = bud
    /\ stacks' = Returned("resolved", generateToolStack(context.userProfile, uc, bud, catalog))
    /\ catalog' = arraysOfGenerateToolStack(context.userProfile, uc, bud, catalog).tools
    /\ UNCHANGED pageVars
    /\ UNCHANGED <<importFails, pricing, price, tool, context, scored,
                   prevContext, prevScored, limit, recs,
                   investment, returns, roi, message, response,
                   request, httpResponse,
                   stackTools, toolROI, stackROI>>

\* calculateToolROI reads its tool, a record of the catalog, and writes nothing
CallCalculateToolROI(i) ==
    /\ tool' = catalog[i]
    /\ toolROI' = Returned("calculateToolROI", calculateToolROI(catalog[i], context.userProfile))
    /\ UNCHANGED pageVars
    /\ UNCHANGED <<catalog, importFails, imports, pricing, price, context, scored,
                   prevContext, prevScored, limit, recs, useCase, budget, stacks,
                   investment, returns, roi, message, response, request, httpResponse,
                   stackTools, stackROI>>

\* calculateStackROI maps and reduces its tools, here the catalog, and writes nothing
CallCalculateStackROI ==
    /\ stackTools' = catalog
    /\ stackROI' = Returned("calculateStackROI",
                            ROICalculator_calculateStackROI(catalog, context.userProfile))
    /\ UNCHANGED pageVars
    /\ UNCHANGED <<catalog, importFails, imports, pricing, price, tool, context, scored,
                   prevContext, prevScored, limit, recs, useCase, budget, stacks,
                   investment, returns, roi, message, response, request, httpResponse,
                   toolROI>>

NextCalls ==
    \/ \E lim \in CallLimits : CallGenerateRecommendations(lim)
    \/ \E uc \in CallUseCases : CallGenerateToolStack(uc, 60)
    \/ \E i \in 1..Len(catalog) : CallCalculateToolROI(i)
    \/ CallCalculateStackROI

SpecCalls == InitCalls /\ [][NextCalls]_vars

(***************************************************************************)
(* SpecVoice: the handlers of the VoiceSearchManager, in any order: the    *)
(* calls of startListening and stopListening by the page, and the result,  *)
(* error and end events of the browser's recognizer.                       *)
(***************************************************************************)
OnResultCallbacks == {"showTranscript", "runSearch"}

OnErrorCallbacks == {NoCallback, "showError", "hideMicrophone"}

heard(transcript, confidence, isFinal) ==
    [transcript |-> transcript, confidence |-> confidence, isFinal |-> isFinal]

\* the result events of the recognizer
ResultEvents ==
    {[resultIndex |-> 0, results |-> <<heard(<<"a", "i">>, 90, TRUE)>>],
     [resultIndex |-> 0, results |-> <<heard(<<"a", "i">>, 90, TRUE), heard(<<" ", "t", "o">>, 40, FALSE)>>],
     [resultIndex |-> 1, results |-> <<heard(<<"a", "i">>, 90, TRUE), heard(<<" ", "t", "o">>, 40, FALSE)>>],
     [resultIndex |-> 0, results |-> <<heard(<<>>, 0, FALSE)>>]}

\* the error codes of the error events of the recognizer
ErrorCodes == {<<"n", "o", "-", "s", "p", "e", "e", "c", "h">>, <<"n", "e", "t", "w", "o", "r", "k">>}

\* the fields of the manager, with the invocations of the handler that ran last
voiceSearchManager ==
    [isSupported |-> isSupported, isListening |-> isListening,
     recognition |-> recognition, onResultCallback |-> onResultCallback,
     onErrorCallback |-> onErrorCallback, invoked |-> invoked]

InitVoice ==
    /\ IdleEngines /\ IdleLogin /\ IdleExpert /\ IdleChatUI
    /\ isSupported \in BOOLEAN
    /\ recognition = (IF isSupported THEN "idle" ELSE "absent")
    /\ isListening = FALSE
    /\ onResultCallback = NoCallback /\ onErrorCallback = NoCallback
    /\ invoked = <<>> /\ handled = NoHandler

\* startListening(onResult, onError); fails: start() throws on an idle recognizer
StartListening(onResult, onError, fails) ==
    LET throws == isSupported /\ (recognition # "idle" \/ fails)
        after == startListening(voiceSearchManager, onResult, onError, throws)
    IN  /\ isListening' = after.isListening
        /\ onResultCallback' = after.onResultCallback
        /\ onErrorCallback' = after.onErrorCallback
        /\ invoked' = after.invoked
        /\ recognition' = (IF isSupported /\ ~throws THEN "running" ELSE recognition)
        /\ handled' = Handled("startListening", <<onResult, onError>>, throws)
        /\ UNCHANGED isSupported
        /\ UNCHANGED <<engineVars, loginVars, expertVars, chatVars>>

StopListening ==
    /\ isListening' = (IF stopListeningStops(voiceSearchManager) THEN FALSE ELSE isListening)
    /\ recognition' = (IF stopListeningStops(voiceSearchManager) /\ recognition = "running"
                       THEN "ending" ELSE recognition)
    /\ invoked' = <<>>
    /\ handled' = Handled("stopListening", <<>>, FALSE)
    /\ UNCHANGED <<isSupported, onResultCallback, onErrorCallback>>
    /\ UNCHANGED <<engineVars, loginVars, expertVars, chatVars>>

\* a result event: results reach the page while the recognizer runs or ends
OnResult(event) ==
    /\ recognition \in {"running", "ending"}
    /\ invoked' = onresult(event, onResultCallback)
    /\ handled' = Handled("onresult", <<event>>, FALSE)
    /\ UNCHANGED <<isSupported, isListening, recognition, onResultCallback,
                   onErrorCallback>>
    /\ UNCHANGED <<engineVars, loginVars, expertVars, chatVars>>

\* an error event: the recognizer ends after it
OnError(error) ==
    /\ recognition \in {"running", "ending"}
    /\ isListening' = FALSE
    /\ invoked' = optionalCall(onErrorCallback, error)
    /\ recognition' = "ending"
    /\ handled' = Handled("onerror", <<error>>, FALSE)
    /\ UNCHANGED <<isSupported, onResultCallback, onErrorCallback>>
    /\ UNCHANGED <<engineVars, loginVars, expertVars, chatVars>>

\* the end event: the recognizer is idle again
OnEnd ==
    /\ recognition \in {"running", "ending"}
    /\ isListening' = FALSE
    /\ invoked' = <<>>
    /\ recognition' = "idle"
    /\ handled' = Handled("onend", <<>>, FALSE)
    /\ UNCHANGED <<isSupported, onResultCallback, onErrorCallback>>
    /\ UNCHANGED <<engineVars, loginVars, expertVars, chatVars>>

NextVoice ==
    \/ \E onResult \in OnResultCallbacks, onError \in OnErrorCallbacks, fails \in BOOLEAN :
           StartListening(onResult, onError, fails)
    \/ StopListening
    \/ \E event \in ResultEvents : OnResult(event)
    \/ \E error \in ErrorCodes : OnError(error)
    \/ OnEnd

SpecVoice == InitVoice /\ [][NextVoice]_vars

(***************************************************************************)
(* SpecLogin: the login page.  The visitor types, submits the form, and    *)
(* the fetch of each login settles in its own time: the server answers ok  *)
(* with the user, answers not ok with or without an error, or the fetch    *)
(* throws.  The page takes input while the router is at /login.            *)
(***************************************************************************)
Emails == {<<>>, <<"a", "@", "b", ".", "c">>}

Passwords == {<<>>, <<"p", "w">>}

\* what the fetch of a login with these credentials can settle with
Settlements(credentials) ==
    {[kind |-> "throws"],
     [kind |-> "json", ok |-> FALSE, data |-> [error |-> <<"I", "n", "v", "a", "l", "i", "d", " ", "c", "r", "e", "d", "e", "n", "t", "i", "a", "l", "s">>]],
     [kind |-> "json", ok |-> FALSE, data |-> [message |-> <<"T", "o", "o", " ", "m", "a", "n", "y", " ", "r", "e", "q", "u", "e", "s", "t", "s">>]],
     [kind |-> "json", ok |-> TRUE,
      data |-> [user |-> Object([email |-> credentials.email])]]}

InitLogin ==
    /\ IdleEngines /\ IdleVoice /\ IdleExpert /\ IdleChatUI
    /\ formData = [email |-> <<>>, password |-> <<>>]
    /\ errors = <<>>
    /\ loginIsLoading = FALSE
    /\ user = Null
    /\ route = <<"/", "l", "o", "g", "i", "n">>
    /\ pendingLogins = <<>>
    /\ submitted = NoCall

HandleChange(name, value) ==
    /\ route = <<"/", "l", "o", "g", "i", "n">>
    /\ formData' = [formData EXCEPT ![name] = value]
    /\ UNCHANGED <<errors, loginIsLoading, user, route, pendingLogins, submitted>>
    /\ UNCHANGED <<engineVars, voiceVars, expertVars, chatVars>>

\* handleSubmit up to its await: login is called and its fetch is sent
HandleSubmit ==
    /\ route = <<"/", "l", "o", "g", "i", "n">>
    /\ Len(pendingLogins) < MaxPendingLogins
    /\ loginIsLoading' = TRUE
    /\ errors' = <<>>
    /\ pendingLogins' = Append(pendingLogins, formData)
    /\ UNCHANGED <<formData, user, route, submitted>>
    /\ UNCHANGED <<engineVars, voiceVars, expertVars, chatVars>>

\* the fetch of the i-th pending login settles: the rest of login, then of handleSubmit
LoginSettles(i, settled) ==
    LET resolved == login(settled, user)
        after == handleSubmitAfterLogin(resolved.value, errors)
    IN  /\ user' = resolved.user
        /\ errors' = after.errors
        /\ route' = (IF after.pushed # <<>> THEN after.pushed[Len(after.pushed)] ELSE route)
        /\ loginIsLoading' = FALSE
        /\ pendingLogins' = without(pendingLogins, i)
        /\ submitted' = Returned("handleSubmit",
                                 [login |-> resolved.value, pushed |-> after.pushed])
        /\ UNCHANGED formData
        /\ UNCHANGED <<engineVars, voiceVars, expertVars, chatVars>>

NextLogin ==
    \/ \E email \in Emails : HandleChange("email", email)
    \/ \E password \in Passwords : HandleChange("password", password)
    \/ HandleSubmit
    \/ \E i \in 1..Len(pendingLogins) :
           \E settled \in Settlements(pendingLogins[i]) : LoginSettles(i, settled)

SpecLogin == InitLogin /\ [][NextLogin]_vars

(***************************************************************************)
(* SpecExpert: verifyExpert of an ExpertProfile.  The profiles have a      *)
(* rating from 0 to 5 and no negative count; their reviews are 0 or at     *)
(* least 4, so that reviews / 100 is 0 or at least 2^-5.                   *)
(***************************************************************************)
ExpertYears == {0, 6, 10}

ExpertCertifications == {<<>>, <<<<"A", "W", "S">>, <<"G", "C", "P">>, <<"P", "M", "P">>>>, <<<<"A", "W", "S">>, <<"G", "C", "P">>, <<"P", "M", "P">>, <<"C", "K", "A">>>>}

ExpertReviews == {0, 20, 50}

\* the ratings, in tenths
ExpertRatings == {0, 29, 34, 48, 50}

ExpertSocialLinks ==
    {<<>>, [linkedin |-> <<"i", "n", "/", "a">>], [linkedin |-> <<>>, twitter |-> <<"@", "a">>],
     [linkedin |-> <<"i", "n", "/", "a">>, twitter |-> <<"@", "a">>, website |-> <<"a", ".", "i", "o">>]}

ExpertExpertise == {<<>>, <<<<"A", "I">>, <<"A", "u", "t", "o", "m", "a", "t", "i", "o", "n">>>>}

ExpertProfiles ==
    [yearsOfExperience : ExpertYears, certifications : ExpertCertifications,
     reviews : ExpertReviews, rating : ExpertRatings, socialLinks : ExpertSocialLinks,
     expertise : ExpertExpertise]

InitExpert ==
    /\ IdleEngines /\ IdleVoice /\ IdleLogin /\ IdleChatUI
    /\ expertProfile \in ExpertProfiles
    /\ verification = NoCall

VerifyExpert ==
    /\ verification' = Returned("resolved", verifyExpert(expertProfile))
    /\ UNCHANGED expertProfile
    /\ UNCHANGED <<engineVars, voiceVars, loginVars, chatVars>>

NextExpert == VerifyExpert

SpecExpert == InitExpert /\ [][NextExpert]_vars

(***************************************************************************)
(* SpecChatUI: one chat component, AIAssistantButton with its greeting or  *)
(* PremiumAIAssistant with or without a user profile, over a catalog whose *)
(* import succeeds or fails.  The visitor changes the input, sends, and    *)
(* selects a tool of an answer; the answer of a send arrives in its own    *)
(* time.  React runs each event handler on the state the handlers before   *)
(* it left.  A chat accepts MaxSends sends and MaxSelections selections.   *)
(***************************************************************************)
MaxSelections == 1

ChatInputs == {<<>>, <<" ", " ">>, <<"h", "e", "l", "l", "o">>, <<" ", "m", "a", "r", "k", "e", "t", "i", "n", "g", " ">>, <<"x", "y", "z">>}

ChatUICatalogs == {<<>>, <<FreeTool, PerfectTool>>}

ChatUIProfiles == {p \in StackProfiles : p.budget.monthly = 500}

\* the greeting AIAssistantButton shows when it is opened
greetingMessage == Message("assistant", <<textItem(<<"greeting">>)>>, 0)

\* the state of the chat component
chat ==
    [messages |-> messages, inputValue |-> inputValue, isLoading |-> isLoading,
     inFlight |-> inFlight, sends |-> sends]

\* the chat component is left in the state after
setChat(after) ==
    /\ messages' = after.messages
    /\ inputValue' = after.inputValue
    /\ isLoading' = after.isLoading
    /\ inFlight' = after.inFlight
    /\ sends' = after.sends

\* the profile of the component, <<>> where it has none
userProfileOf(ctx) == IF DOMAIN ctx = {} THEN <<>> ELSE ctx.userProfile

InitChatUI ==
    /\ IdleVoice /\ IdleLogin /\ IdleExpert
    /\ catalog \in ChatUICatalogs /\ importFails \in BOOLEAN /\ imports = 0
    /\ component \in {"AIAssistantButton", "PremiumAIAssistant"}
    /\ context \in (IF component = "AIAssistantButton" THEN {<<>>}
                    ELSE {<<>>} \cup {contextOf(p) : p \in ChatUIProfiles})
    /\ messages = (IF component = "AIAssistantButton" THEN <<greetingMessage>> ELSE <<>>)
    /\ inputValue = <<>> /\ isLoading = FALSE /\ inFlight = <<>> /\ sends = 0
    /\ IdlePrice /\ IdleScore /\ IdleRecs /\ IdleStacks /\ IdleROI /\ IdleChat
    /\ IdleApi /\ IdleToolROI

\* the input changes: typing, a suggestion, a voice transcript
SetInputValue(text) ==
    /\ inputValue' = text
    /\ UNCHANGED <<component, messages, isLoading, inFlight, sends>>
    /\ UNCHANGED <<engineVars, voiceVars, loginVars, expertVars>>

\* Enter or the send button of AIAssistantButton
HandleSendMessage ==
    /\ component = "AIAssistantButton"
    /\ sends < MaxSends
    /\ setChat(handleSendMessage(chat))
    /\ UNCHANGED component
    /\ UNCHANGED <<engineVars, voiceVars, loginVars, expertVars>>

\* processUserMessage resolves for the i-th send in flight
HandleSendMessageResumes(i) ==
    /\ component = "AIAssistantButton"
    /\ LET out == processUserMessage(inFlight[i].text, catalog, importFails)
       IN  /\ setChat(handleSendMessageResumed(chat, i, out))
           /\ imports' = (IF out.imported THEN imports + 1 ELSE imports)
    /\ UNCHANGED component
    /\ UNCHANGED <<catalog, importFails, pricing, price, tool, context,
                   scored, prevContext, prevScored, limit, recs, useCase, budget, stacks,
                   investment, returns, roi, message, response, request, httpResponse,
                   stackTools, toolROI, stackROI>>
    /\ UNCHANGED <<voiceVars, loginVars, expertVars>>

\* the form of PremiumAIAssistant is submitted
HandleSubmitChat ==
    /\ component = "PremiumAIAssistant"
    /\ sends < MaxSends
    /\ setChat(handleSubmit(chat, userProfileOf(context)))
    /\ UNCHANGED component
    /\ UNCHANGED <<engineVars, voiceVars, loginVars, expertVars>>

\* generateRecommendations settles for the i-th send in flight
PremiumProcessResumes(i) ==
    /\ component = "PremiumAIAssistant"
    /\ LET out == Premium_processUserMessageResumed(chat, i, context, catalog, importFails)
       IN  /\ setChat(out.ui)
           /\ imports' = imports + out.imported
    /\ UNCHANGED component
    /\ UNCHANGED <<catalog, importFails, pricing, price, tool, context,
                   scored, prevContext, prevScored, limit, recs, useCase, budget, stacks,
                   investment, returns, roi, message, response, request, httpResponse,
                   stackTools, toolROI, stackROI>>
    /\ UNCHANGED <<voiceVars, loginVars, expertVars>>

\* a tool of an answer of PremiumAIAssistant is clicked
HandleToolSelect(m, k) ==
    /\ component = "PremiumAIAssistant"
    /\ Cardinality({j \in 1..Len(messages) : messages[j].send = 0}) < MaxSelections
    /\ setChat(handleToolSelect(chat, messages[m].content.tools[k]))
    /\ UNCHANGED component
    /\ UNCHANGED <<engineVars, voiceVars, loginVars, expertVars>>

NextChatUI ==
    \/ \E text \in ChatInputs : SetInputValue(text)
    \/ HandleSendMessage
    \/ \E i \in 1..Len(inFlight) : HandleSendMessageResumes(i)
    \/ HandleSubmitChat
    \/ \E i \in 1..Len(inFlight) : PremiumProcessResumes(i)
    \/ \E m \in 1..Len(messages) :
           \E k \in 1..(IF messages[m].sender = "assistant" /\ component = "PremiumAIAssistant"
                        THEN Len(messages[m].content.tools) ELSE 0) :
               HandleToolSelect(m, k)

SpecChatUI == InitChatUI /\ [][NextChatUI]_vars
(***************************************************************************)
(* The claims.                                                             *)
(***************************************************************************)
\* the tool of the catalog with this id, its place in the catalog, and the
\* aggregate score calculateToolScore gives it in the context of the call
toolById(id) == CHOOSE t \in Range(catalog) : t.id = id

catalogIndex(id) == CHOOSE i \in 1..Len(catalog) : catalog[i].id = id

aggregateScore(id) == calculateToolScore(toolById(id), context, catalog).score

\* C1: each of the eight sub-factors calculateToolScore computes lies in [0, 1]
\* (0..1000 thousandths).  Refuted: roiPotential is 0.5 * 1.5 * 1.6 = 1.2 for
\* the industry Technology and the team size enterprise.
C1_FactorsInUnitInterval ==
    scored.status # "none" =>
        \A i \in 1..Len(FactorNames) :
            /\ scored.value.factors[FactorNames[i]] >= 0
            /\ scored.value.factors[FactorNames[i]] <= 1000

\* C2: the aggregate score of calculateToolScore lies in [0, 1] (0..100000).
\* Refuted: with every factor at 1.0 and roiPotential at 1.2 the sum is 1.03.
C2_ScoreInUnitInterval ==
    scored.status # "none" =>
        scored.value.score >= 0 /\ scored.value.score <= 100000

\* C3: generateRecommendations returns the tools by non-increasing aggregate
\* score, and tools of equal score in their order in the catalog.
C3_SortedStable ==
    recs.status = "resolved" =>
        \A i, j \in 1..Len(recs.value) :
            i < j =>
                LET a == recs.value[i].toolId
                    b == recs.value[j].toolId
                IN  \/ aggregateScore(a) > aggregateScore(b)
                    \/ /\ aggregateScore(a) = aggregateScore(b)
                       /\ catalogIndex(a) < catalogIndex(b)

\* a call that returned two tools of equal score and moved a tool forward
C3_TieAndReorder ==
    /\ recs.status = "resolved"
    /\ \E i, j \in 1..Len(recs.value) :
           /\ i < j
           /\ aggregateScore(recs.value[i].toolId) = aggregateScore(recs.value[j].toolId)
    /\ \E i, j \in 1..Len(recs.value) :
           /\ i < j
           /\ aggregateScore(recs.value[i].toolId) > aggregateScore(recs.value[j].toolId)
           /\ catalogIndex(recs.value[i].toolId) > catalogIndex(recs.value[j].toolId)

stackPool ==
    recommendedTools(generateRecommendations(context, 10, catalog), catalog)

stackSelection(kind) ==
    CASE kind = "Essential" ->
             slice(SelectSeq(stackPool, LAMBDA t : isEssentialForUseCase(t, useCase)), 3)
      [] kind = "Balanced" ->
             slice(SelectSeq(stackPool, LAMBDA t : isBalancedForUseCase(t, useCase)), 5)
      [] kind = "Premium" ->
             slice(SelectSeq(stackPool, LAMBDA t : isFeatureRichForUseCase(t, useCase)), 7)

\* the sum of the extracted prices of the tools with these ids, in cents
RECURSIVE sumOfPrices(_)
sumOfPrices(items) ==
    IF Len(items) = 0 THEN 0
    ELSE ToolStackBuilder_extractPrice(toolById(items[1].toolId).pricing)
         + sumOfPrices(Tail(items))

StackKinds == {"Essential", "Balanced", "Premium"}

\* C6: every stack generateToolStack returns has an estimatedCost, the sum of
\* the extracted prices of its tools, of at most the budget; a kind whose chosen
\* tools cost more is left out, and a stack returned holds all the tools chosen.
C6_WithinBudget ==
    stacks.status = "resolved" =>
        /\ \A i \in 1..Len(stacks.value) :
               LET stack == stacks.value[i].stack
               IN  /\ stack.estimatedCost = sumOfPrices(stack.tools)
                   /\ stack.estimatedCost <= 100 * budget
                   /\ With(stackSelection(stack.name), LAMBDA chosen :
                          /\ Len(stack.tools) = Len(chosen)
                          /\ \A k \in 1..Len(chosen) : stack.tools[k].toolId = chosen[k].id)
        /\ \A kind \in StackKinds :
               With(stackSelection(kind), LAMBDA chosen :
                   calculateStackCost(chosen) > 100 * budget =>
                       \A i \in 1..Len(stacks.value) : stacks.value[i].stack.name # kind)

\* a call that left out a kind for its cost and returned a stack that costs money
C6_DroppedAndKept ==
    /\ stacks.status = "resolved"
    /\ \E kind \in StackKinds :
           /\ Len(stackSelection(kind)) > 0
           /\ calculateStackCost(stackSelection(kind)) > 100 * budget
    /\ \E i \in 1..Len(stacks.value) : stacks.value[i].stack.estimatedCost > 0

\* C7, as amended: for an investment > 0 the paybackPeriod is Infinity iff the
\* annual returns are <= 0; otherwise calculatePaybackPeriod returns
\* investment / (returns / 12) and calculateROIMetrics returns that value
\* rounded to the nearest hundredth.
C7_PaybackPeriod ==
    (roi.status # "none" /\ investment > 0) =>
        LET p == roi.value.paybackPeriod
        IN  /\ (p = Infinity) <=> (returns <= 0)
            /\ returns > 0 =>
                   /\ p.den > 0
                   /\ roi.status = "calculatePaybackPeriod" =>
                          p.num * returns = 12 * investment * p.den
                   /\ roi.status = "calculateROIMetrics" =>
                          /\ p.den = 100
                          /\ 2 * Abs(p.num * returns - 1200 * investment) <= returns

\* calculateROIMetrics returned a payback period that rounding changed
C7_RoundedPayback ==
    /\ roi.status = "calculateROIMetrics"
    /\ investment = 1
    /\ returns = 7
    /\ roi.value.paybackPeriod = Frac(171, 100)

\* C7 as stated: with returns > 0 both methods give investment / (returns / 12)
C7_PaybackPeriodExact ==
    (roi.status # "none" /\ investment > 0) =>
        LET p == roi.value.paybackPeriod
        IN  /\ (p = Infinity) <=> (returns <= 0)
            /\ returns > 0 =>
                   /\ p.den > 0
                   /\ p.num * returns = 12 * investment * p.den

\* the pricing string holds no digit
NoDigit(str) == \A i \in 1..Len(str) : ~IsDigit(str[i])

PriceClasses == {"AIRecommendationEngine", "ROICalculator", "ToolStackBuilder"}

\* C8: for a pricing string without a digit each of the three copies of
\* extractPrice returns 0.
C8_NoDigitIsZero ==
    \A c \in PriceClasses :
        (price[c].status # "none" /\ NoDigit(pricing)) => price[c].value = 0

\* the three copies were called with "Contact us"
C8_ContactUsPriced ==
    /\ pricing = ContactUs
    /\ \A c \in PriceClasses : price[c].status # "none" /\ price[c].value = 0

\* the two profiles differ in nothing but budget.monthly
OnlyBudgetDiffers ==
    /\ prevScored.status # "none"
    /\ [prevContext EXCEPT !.userProfile.budget.monthly = 0]
           = [context EXCEPT !.userProfile.budget.monthly = 0]

\* C9: of two profiles that differ in budget.monthly only, the one with the
\* larger budget gets no lower budgetMatch and no lower aggregate score for the
\* same tool; a tool priced above the smaller budget and at most 30% of the
\* larger gets budgetMatch 0.2 and 1.0, and a strictly higher score.
C9_BudgetMonotone ==
    (OnlyBudgetDiffers
        /\ context.userProfile.budget.monthly >= prevContext.userProfile.budget.monthly) =>
        LET small == 100 * prevContext.userProfile.budget.monthly
            large == 100 * context.userProfile.budget.monthly
            cents == extractPrice(tool.pricing)
        IN  /\ scored.value.factors.budgetMatch >= prevScored.value.factors.budgetMatch
            /\ scored.value.score >= prevScored.value.score
            /\ (cents > small /\ 10 * cents <= 3 * large) =>
                   /\ prevScored.value.factors.budgetMatch = 200
                   /\ scored.value.factors.budgetMatch = 1000
                   /\ scored.value.score > prevScored.value.score

\* the tool of $49 scored for a budget of $10 and then for a budget of $500
C9_OverThenWithin ==
    /\ OnlyBudgetDiffers
    /\ extractPrice(tool.pricing) = 4900
    /\ prevContext.userProfile.budget.monthly = 10
    /\ context.userProfile.budget.monthly = 500
    /\ scored.value.score > prevScored.value.score

\* the trimmed lower-case message holds a greeting
IsGreeting(msg) == includesAny(trim(toLowerCase(msg)), greetings)

\* C10: a message whose trimmed lower-case text holds a greeting is answered
\* with the context type 'greeting' and without an import of the catalog; the
\* response is the one canned response, whatever the catalog and whether or not
\* it can be imported.
C10_GreetingWithoutCatalog ==
    (response.status # "none" /\ IsGreeting(message)) =>
        /\ response.value.context.type = "greeting"
        /\ response.value = cannedResponse("greeting")
        /\ imports = 0

\* a greeting was answered while the catalog could not be imported
C10_GreetingCatalogUnloadable ==
    /\ response.status # "none"
    /\ IsGreeting(message)
    /\ importFails
    /\ response.value.context.type = "greeting"

\* the trimmed lower-case message
messageLowerOf(msg) == trim(toLowerCase(msg))

\* no search pattern that the message matches finds a tool in the catalog
NoCategoryTools ==
    \A i \in 1..Len(searchPatterns) :
        patternTest(searchPatterns[i], message) =>
            \A k \in 1..Len(catalog) : ~patternFilter(searchPatterns[i], catalog[k])

\* the general search finds no tool in the catalog
NoSearchResults ==
    \A k \in 1..Len(catalog) : ~searchFilter(catalog[k], messageLowerOf(message))

\* C11: with the catalog imported, a message that no greeting, help, thanks or
\* goodbye rule matches, for which no category rule finds tools and the general
\* search finds no catalog entry, is answered with the no-results text as the
\* only content item, without a tool card and with an empty context.
C11_NoResults ==
    (/\ response.status # "none"
     /\ ~importFails
     /\ cannedRule(messageLowerOf(message)) = ""
     /\ NoCategoryTools
     /\ NoSearchResults) =>
        /\ response.value.content = <<textItem(<<"no results", message>>)>>
        /\ \A i \in 1..Len(response.value.content) :
               response.value.content[i].type # "tool_card"
        /\ response.value.context = NoContext
        /\ response.value.context.tools = <<>>

\* "xyz123notfound" was answered over a catalog that holds tools
C11_NotFoundAnswered ==
    /\ response.status # "none"
    /\ ~importFails
    /\ message = <<"x", "y", "z", "1", "2", "3", "n", "o", "t", "f", "o", "u", "n", "d">>
    /\ Len(catalog) >= 2
    /\ response.value.content = <<textItem(<<"no results", message>>)>>

\* the list the filters of the request leave, computed tool by tool
filteredCatalog ==
    SelectSeq(catalog, LAMBDA t :
        /\ given(request.query.category) => categoryFilter(t, request.query.category[1])
        /\ given(request.query.search) => apiSearchFilter(t, request.query.search[1]))

\* the request was answered with data, for a limit and an offset >= 0
PageServed ==
    /\ httpResponse.status # "none"
    /\ httpResponse.value.status = 200
    /\ limitOf(request.query) >= 0
    /\ offsetOf(request.query) >= 0

\* C12: for GET /api/tools with a limit and an offset that are integers >= 0,
\* data holds the elements of the filtered list at the positions
\* [offset, offset + limit) in the order of the catalog, meta.total is the
\* length of the filtered list, and meta.hasMore says offset + limit < total.
C12_Page ==
    PageServed =>
        LET lim      == limitOf(request.query)
            off      == offsetOf(request.query)
            filtered == filteredCatalog
            total    == Len(filtered)
            data     == httpResponse.value.data
            meta     == httpResponse.value.meta
        IN  /\ Len(data) = Max(Min(off + lim, total) - off, 0)
            /\ \A k \in 1..Len(data) : data[k] = filtered[off + k]
            /\ meta.total = total
            /\ meta.hasMore <=> (off + lim < total)

\* a page that starts after the first element and ends before the last
C12_InnerPage ==
    /\ PageServed
    /\ offsetOf(request.query) = 1
    /\ limitOf(request.query) = 1
    /\ given(request.query.search)
    /\ Len(filteredCatalog) = 3
    /\ httpResponse.value.data = <<filteredCatalog[2]>>
    /\ httpResponse.value.meta.hasMore

\* the rule a response comes from, read off the response
responseRule(r) ==
    IF r.context.type # "" THEN r.context.type
    ELSE IF r.context.category = "search" THEN "search"
    ELSE IF r.context.hasTools THEN "category"
    ELSE IF r.content[1].text[1] = "no results" THEN "no results"
    ELSE "error"

\* the first search pattern whose expression the message matches finds a tool
CategoryRuleApplies ==
    \E i \in 1..Len(searchPatterns) :
        /\ patternTest(searchPatterns[i], message)
        /\ \A j \in 1..(i - 1) : ~patternTest(searchPatterns[j], message)
        /\ \E k \in 1..Len(catalog) : patternFilter(searchPatterns[i], catalog[k])

\* the general search is made and finds a tool
SearchRuleApplies ==
    /\ Len(messageLowerOf(message)) >= 3
    /\ \A i \in 1..Len(commonWords) : commonWords[i] # messageLowerOf(message)
    /\ ~NoSearchResults

\* C13: the rules are tried in the order greeting, help, thanks, goodbye,
\* category pattern, general search, no results, and the first that applies
\* gives the response; the last three are tried once the catalog is imported.
C13_FirstRuleWins ==
    response.status # "none" =>
        LET ml       == messageLowerOf(message)
            greeting == includesAny(ml, greetings)
            help     == includesAny(ml, helpPhrases)
            thanks   == includesAny(ml, thanksPhrases)
            goodbye  == includesAny(ml, goodbyePhrases)
            canned   == greeting \/ help \/ thanks \/ goodbye
            rule     == responseRule(response.value)
        IN  /\ greeting => rule = "greeting"
            /\ (~greeting /\ help) => rule = "help"
            /\ (~greeting /\ ~help /\ thanks) => rule = "thanks"
            /\ (~greeting /\ ~help /\ ~thanks /\ goodbye) => rule = "goodbye"
            /\ (~canned /\ ~importFails /\ CategoryRuleApplies) => rule = "category"
            /\ (~canned /\ ~importFails /\ ~CategoryRuleApplies /\ SearchRuleApplies) =>
                   rule = "search"
            /\ (~canned /\ ~importFails /\ ~CategoryRuleApplies /\ ~SearchRuleApplies) =>
                   rule = "no results"

\* a message with 'help' and a category keyword whose tools the catalog holds
\* was answered with the help text
C13_HelpBeforeCategory ==
    /\ response.status # "none"
    /\ message = <<"h", "e", "l", "p", " ", "w", "i", "t", "h", " ", "m", "a", "r", "k", "e", "t", "i", "n", "g">>
    /\ ~importFails
    /\ CategoryRuleApplies
    /\ response.value = cannedResponse("help")

\* the first cap catalog entries that satisfy a filter, in catalog order: entry k
\* is the catalog entry at the k-th smallest of the indexes in matching
firstOf(matching, cap) ==
    LET n == IF Cardinality(matching) < cap THEN Cardinality(matching) ELSE cap
    IN  [k \in 1..n |->
            catalog[CHOOSE i \in matching : Cardinality({j \in matching : j < i}) = k - 1]]

\* the indexes of the catalog entries the first matching pattern's filter lets through
categoryMatches ==
    LET first == CHOOSE i \in 1..Len(searchPatterns) :
                     /\ patternTest(searchPatterns[i], message)
                     /\ \A j \in 1..(i - 1) : ~patternTest(searchPatterns[j], message)
    IN  {k \in 1..Len(catalog) : patternFilter(searchPatterns[first], catalog[k])}

\* the indexes of the catalog entries the general search's filter lets through
searchMatches ==
    {k \in 1..Len(catalog) : searchFilter(catalog[k], messageLowerOf(message))}

\* C14: a category response holds at most 5 tools and a general-search response
\* at most 3; they are the first catalog entries that satisfy the filter, in
\* catalog order, and each of them satisfies the filter.
C14_FirstMatchesCapped ==
    response.status # "none" =>
        LET rule  == responseRule(response.value)
            tools == response.value.content[2].tools
        IN  /\ rule = "category" =>
                   /\ Len(tools) <= 5
                   /\ tools = firstOf(categoryMatches, 5)
                   /\ \A i \in 1..Len(tools) :
                          \E k \in categoryMatches : tools[i] = catalog[k]
            /\ rule = "search" =>
                   /\ Len(tools) <= 3
                   /\ tools = firstOf(searchMatches, 3)
                   /\ \A i \in 1..Len(tools) :
                          \E k \in searchMatches : tools[i] = catalog[k]

\* a general search that more than 3 catalog entries satisfy, the first of them
\* not the first catalog entry, was answered with 3 tools
C14_SearchCutToThree ==
    /\ response.status # "none"
    /\ responseRule(response.value) = "search"
    /\ Cardinality(searchMatches) > 3
    /\ 1 \notin searchMatches
    /\ Len(response.value.content[2].tools) = 3

\* a category rule that more than 5 catalog entries satisfy was answered with 5 tools
C14_CategoryCutToFive ==
    /\ response.status # "none"
    /\ responseRule(response.value) = "category"
    /\ Cardinality(categoryMatches) > 5
    /\ Len(response.value.content[2].tools) = 5

\* C15: in every stack generateToolStack returns, the priority of the item at
\* 0-based index i is 'essential' for i in 0..2, 'important' for i in 3..4 and
\* 'nice-to-have' from 5 on, whichever tool stands there.
C15_PriorityByIndex ==
    stacks.status = "resolved" =>
        \A s \in 1..Len(stacks.value) :
            \A i \in 1..Len(stacks.value[s].stack.tools) :
                stacks.value[s].stack.tools[i].priority =
                    IF i - 1 <= 2 THEN "essential"
                    ELSE IF i - 1 <= 4 THEN "important" ELSE "nice-to-have"

\* a stack of more than 5 items was returned, with the same tool kind standing
\* at indexes labelled differently
C15_AllThreeLabels ==
    /\ stacks.status = "resolved"
    /\ \E s \in 1..Len(stacks.value) :
           LET items == stacks.value[s].stack.tools
           IN  /\ Len(items) > 5
               /\ items[1].priority = "essential"
               /\ items[4].priority = "important"
               /\ items[6].priority = "nice-to-have"
               /\ toolById(items[1].toolId).category
                      = toolById(items[6].toolId).category

\* the ids of the recommendations generateToolStack asks for
recommendedIds ==
    LET recommendations == generateRecommendations(context, 10, catalog)
    IN  {recommendations[i].toolId : i \in 1..Len(recommendations)}

\* the most tools a stack of this complexity holds
stackCapacity(complexity) ==
    CASE complexity = "simple" -> 3 [] complexity = "moderate" -> 5 [] complexity = "complex" -> 7

\* C16: generateToolStack returns at most one stack of each complexity (simple,
\* moderate, complex); each holds at least one tool, a simple one at most 3, a
\* moderate one at most 5, a complex one at most 7, and every tool of a stack is
\* one of the at most 10 tools recommended.
C16_StackSizes ==
    stacks.status = "resolved" =>
        /\ Cardinality(recommendedIds) <= 10
        /\ \A i, j \in 1..Len(stacks.value) :
               stacks.value[i].stack.complexity = stacks.value[j].stack.complexity => i = j
        /\ \A i \in 1..Len(stacks.value) :
               LET stack == stacks.value[i].stack
               IN  /\ stack.complexity \in {"simple", "moderate", "complex"}
                   /\ Len(stack.tools) >= 1
                   /\ Len(stack.tools) <= stackCapacity(stack.complexity)
                   /\ \A k \in 1..Len(stack.tools) : stack.tools[k].toolId \in recommendedIds

\* over a catalog of more than 10 tools, all of them fit for the complex stack,
\* three full stacks were returned
C16_ThreeFullStacks ==
    /\ stacks.status = "resolved"
    /\ Len(catalog) > 10
    /\ Cardinality(recommendedIds) = 10
    /\ \A k \in 1..Len(catalog) : isFeatureRichForUseCase(catalog[k], useCase)
    /\ Len(stacks.value) = 3
    /\ \A i \in 1..3 :
           Len(stacks.value[i].stack.tools) = stackCapacity(stacks.value[i].stack.complexity)

\* the number of the four criteria of scoreStack that a stack satisfies
criteriaMet(stack) ==
    LET profile == context.userProfile
    IN  Cardinality(
          {c \in {"budget", "experience", "goals", "roi"} :
              CASE c = "budget"     -> stack.estimatedCost <= 80 * profile.budget.monthly
                [] c = "experience" -> <<profile.experience, stack.complexity>> \in
                                          {<<"expert", "complex">>, <<"intermediate", "moderate">>,
                                           <<"beginner", "simple">>}
                [] c = "goals"      -> stackGoalAlignment(stack, profile) > 700
                [] c = "roi"        -> stack.estimatedROI > 200})

\* min(1.0, 0.7 + 0.1 * k) evaluated in doubles, in ten-thousandths rounded down:
\* 0.7, 0.7999999999999999, 0.8999999999999999, 1.0, 1.0
statedConfidence(k) ==
    CASE k = 0 -> 7000 [] k = 1 -> 7999 [] k = 2 -> 8999 [] OTHER -> 10000

\* C17 as stated: the confidence of every returned stack is min(1.0, 0.7 + 0.1 * k)
\* for the number k of criteria satisfied, the reasoning has k entries and the
\* stacks are returned in non-increasing order of confidence.
C17_ConfidenceAsStated ==
    stacks.status = "resolved" =>
        /\ \A i \in 1..Len(stacks.value) :
               LET k == criteriaMet(stacks.value[i].stack)
               IN  /\ stacks.value[i].confidence = statedConfidence(k)
                   /\ Len(stacks.value[i].reasoning) = k
        /\ \A i, j \in 1..Len(stacks.value) :
               i < j => stacks.value[i].confidence >= stacks.value[j].confidence

\* C17: the confidence of every returned stack is the double that adding 0.1 to
\* 0.7 once per criterion satisfied gives, capped at 1.0: it is
\* min(1.0, 0.7 + 0.1 * k) for k = 0, 1, 2 and 4, and 0.9999999999999999 (here
\* 9999) for k = 3; the reasoning has k entries and the stacks are returned in
\* non-increasing order of confidence.
C17_ConfidenceOfSums ==
    stacks.status = "resolved" =>
        /\ \A i \in 1..Len(stacks.value) :
               LET k == criteriaMet(stacks.value[i].stack)
               IN  /\ stacks.value[i].confidence =
                          IF k = 3 THEN 9999 ELSE statedConfidence(k)
                   /\ Len(stacks.value[i].reasoning) = k
        /\ \A i, j \in 1..Len(stacks.value) :
               i < j => stacks.value[i].confidence >= stacks.value[j].confidence

\* three stacks were returned, the one built last first, with 3 criteria
\* satisfied and a confidence of 0.9999999999999999
C17_PremiumFirst ==
    /\ stacks.status = "resolved"
    /\ Len(stacks.value) = 3
    /\ stacks.value[1].stack.name = "Premium"
    /\ criteriaMet(stacks.value[1].stack) = 3
    /\ stacks.value[1].confidence = 9999
    /\ stacks.value[1].confidence > stacks.value[3].confidence

\* a stack that satisfies all four criteria was returned with confidence 1.0
C17_AllFourCriteria ==
    /\ stacks.status = "resolved"
    /\ \E i \in 1..Len(stacks.value) :
           /\ criteriaMet(stacks.value[i].stack) = 4
           /\ stacks.value[i].confidence = 10000

\* C18 as stated: the confidence calculateToolROI reports lies in [0.7, 0.9].
C18_AtMostNineTenths ==
    toolROI.status # "none" =>
        /\ ~greater(Double0_7, toolROI.value.confidence)
        /\ ~greater(toolROI.value.confidence, Double0_9)

\* the bonuses calculateConfidence adds to 0.7 for this tool and profile, in
\* hundredths: 10 and 5 for a rating >= 4.5, 5 for a rating >= 4.0, 10 for the
\* industry and 5 for the experience level
bonusesOf(t, profile) ==
    (IF t.rating # NoRating /\ t.rating[1] >= 45 THEN 10 ELSE 0)
    + (IF t.rating # NoRating /\ t.rating[1] >= 40 THEN 5 ELSE 0)
    + (IF isIndustryRelevant(t, profile.industry) THEN 10 ELSE 0)
    + (IF matchesExperienceLevel(t, profile.experience) THEN 5 ELSE 0)

\* the literals 0.7, 0.75, 0.8, 0.85, 0.9, 0.95 and 1.0, by the hundredths over 0.7
literalOfBonuses(hundredths) ==
    CASE hundredths = 0  -> <<26208, 19660, 6553, 2867>>
      [] hundredths = 5  -> <<0, 0, 0, 3072>>
      [] hundredths = 10 -> <<6560, 13107, 26214, 3276>>
      [] hundredths = 15 -> <<13104, 26214, 19660, 3481>>
      [] hundredths = 20 -> <<19664, 6553, 13107, 3686>>
      [] hundredths = 25 -> <<26208, 19660, 6553, 3891>>
      [] hundredths = 30 -> <<0, 0, 0, 4096>>

\* two doubles of [0.5, 1] less than 2^-50 apart
close(a, b) ==
    /\ a[2] = b[2] /\ a[3] = b[3] /\ a[4] = b[4]
    /\ a[1] - b[1] < 128 /\ b[1] - a[1] < 128

\* C18: the confidence calculateToolROI reports is, up to the rounding of the
\* sum, 0.7 plus the bonuses for the rating (0.1 and 0.05 at 4.5 and above, 0.05
\* from 4.0), the industry (0.1) and the experience level (0.05); the bonuses
\* total at most 0.3 and the confidence lies in [0.7, 1.0].
C18_AtMostOne ==
    toolROI.status # "none" =>
        /\ bonusesOf(tool, context.userProfile) \in {0, 5, 10, 15, 20, 25, 30}
        /\ close(toolROI.value.confidence,
                 literalOfBonuses(bonusesOf(tool, context.userProfile)))
        /\ ~greater(Double0_7, toolROI.value.confidence)
        /\ ~greater(toolROI.value.confidence, Double1)

\* a tool rated 5.0 that is relevant to the industry and matches the experience
\* level got the confidence 1.0
C18_EveryBonus ==
    /\ toolROI.status # "none"
    /\ tool.rating = <<50>>
    /\ isIndustryRelevant(tool, context.userProfile.industry)
    /\ matchesExperienceLevel(tool, context.userProfile.experience)
    /\ bonusesOf(tool, context.userProfile) = 30
    /\ toolROI.value.confidence = Double1

\* the sum of amount over the first n ROICalculations of the stack returned
RECURSIVE sumOverTools(_, _)
sumOverTools(amount, n) ==
    IF n = 0 THEN 0
    ELSE sumOverTools(amount, n - 1) + stackROI.value.tools[n][amount].total

\* the doubles of the confidences of the first n ROICalculations, added in turn
RECURSIVE confidenceOverTools(_)
confidenceOverTools(n) ==
    IF n = 0 THEN Double0
    ELSE plus(confidenceOverTools(n - 1), stackROI.value.tools[n].confidence)

\* the average per-tool confidence of the stack returned is more than a literal
averageConfidenceOver(literal) ==
    greater(dividedBy(confidenceOverTools(Len(stackTools)), Len(stackTools)), literal)

\* totalInvestment / (budget.annual * 12) < tenths / 10, the amounts in cents
budgetRatioUnder(tenths) ==
    /\ context.userProfile.budget.annual > 0
    /\ 10 * stackROI.value.totalInvestment
           < tenths * (100 * context.userProfile.budget.annual * 12)

\* C19: for a tool set that is not empty calculateStackROI reports as
\* totalInvestment and totalReturns the sums of the investment.total and the
\* returns.total of the ROICalculations of its tools, and the risk is 'low'
\* exactly when the average confidence is > 0.8 and totalInvestment /
\* (budget.annual * 12) < 0.3, 'medium' exactly when it is not low, the average
\* is > 0.6 and the ratio < 0.6, and 'high' otherwise.
C19_TotalsAndRisk ==
    (stackROI.status # "none" /\ Len(stackTools) > 0) =>
        LET out    == stackROI.value
            low    == averageConfidenceOver(Double0_8) /\ budgetRatioUnder(3)
            medium == ~low /\ averageConfidenceOver(Double0_6) /\ budgetRatioUnder(6)
        IN  /\ Len(out.tools) = Len(stackTools)
            /\ \A i \in 1..Len(stackTools) :
                   out.tools[i] = calculateToolROI(stackTools[i], context.userProfile)
            /\ out.totalInvestment = sumOverTools("investment", Len(stackTools))
            /\ out.totalReturns = sumOverTools("returns", Len(stackTools))
            /\ (out.riskAssessment = "low") <=> low
            /\ (out.riskAssessment = "medium") <=> medium
            /\ (out.riskAssessment = "high") <=> (~low /\ ~medium)

\* a set of several tools with an average confidence over 0.8 was classified
\* 'medium': its investment is 30% or more of twelve annual budgets, and less
\* than 60%
C19_MediumByBudget ==
    /\ stackROI.status # "none"
    /\ Len(stackTools) > 1
    /\ averageConfidenceOver(Double0_8)
    /\ ~budgetRatioUnder(3)
    /\ stackROI.value.riskAssessment = "medium"
    /\ stackROI.value.totalInvestment > stackROI.value.tools[1].investment.total

\* a set of several tools was classified 'low'
C19_LowRisk ==
    /\ stackROI.status # "none"
    /\ Len(stackTools) > 1
    /\ stackROI.value.riskAssessment = "low"

\* a set of several tools was classified 'high'
C19_HighRisk ==
    /\ stackROI.status # "none"
    /\ Len(stackTools) > 1
    /\ stackROI.value.riskAssessment = "high"


(***************************************************************************)
(* C20: no call of generateRecommendations, calculateToolROI,              *)
(* calculateStackROI or generateToolStack, after any calls before it,      *)
(* changes the catalog (its length, the order of its Tool records, any     *)
(* field of any record) or the UserProfile supplied: every step of a       *)
(* sequence of calls leaves both as they were.                             *)
(***************************************************************************)
C20_CatalogAndProfileKept ==
    [][catalog' = catalog /\ context'.userProfile = context.userProfile]_vars

\* all four methods have returned, over a catalog that is not in the order of
\* the scores: the first recommendation is not the first tool of the catalog
C20_AllCalledOutOfOrder ==
    /\ Len(catalog) >= 2
    /\ recs.status = "resolved" /\ stacks.status = "resolved"
    /\ toolROI.status = "calculateToolROI" /\ stackROI.status = "calculateStackROI"
    /\ limit = MaxCatalog
    /\ Len(recs.value) >= 2
    /\ recs.value[1].toolId # catalog[1].id
    /\ Len(stacks.value) >= 1

(***************************************************************************)
(* C27: the learningCurve of every recommendation generateRecommendations  *)
(* returns is 'easy' or 'medium', never 'hard': it is 'easy' when the      *)
(* learningCurve factor of the tool is 1.0 and 'medium' when it is 0.5,    *)
(* the only two values of the factor.                                      *)
(***************************************************************************)
C27_NeverHard ==
    recs.status = "resolved" =>
        \A i \in 1..Len(recs.value) :
            LET factor == calculateLearningCurveScore(toolById(recs.value[i].toolId),
                                                      context.userProfile)
            IN  /\ factor \in {1000, 500}
                /\ recs.value[i].learningCurve = (IF factor = 1000 THEN "easy" ELSE "medium")
                /\ recs.value[i].learningCurve # "hard"

\* one list of recommendations with an easy and a medium tool
C27_EasyAndMedium ==
    /\ recs.status = "resolved"
    /\ \E i, j \in 1..Len(recs.value) :
           recs.value[i].learningCurve = "easy" /\ recs.value[j].learningCurve = "medium"

\* the ids of the tools of the returned stack of this complexity
stackToolIds(complexity) ==
    UNION {{stacks.value[i].stack.tools[k].toolId : k \in 1..Len(stacks.value[i].stack.tools)} :
              i \in {j \in 1..Len(stacks.value) : stacks.value[j].stack.complexity = complexity}}

returnsStack(complexity) ==
    \E i \in 1..Len(stacks.value) : stacks.value[i].stack.complexity = complexity

(***************************************************************************)
(* C26: when generateToolStack returns both an Essential and a Balanced    *)
(* stack, every tool of the Essential stack is a tool of the Balanced      *)
(* stack; when it returns both a Balanced and a Premium stack, every tool  *)
(* of the Balanced stack is a tool of the Premium stack.                   *)
(***************************************************************************)
C26_StacksNested ==
    stacks.status = "resolved" =>
        /\ returnsStack("simple") /\ returnsStack("moderate")
               => stackToolIds("simple") \subseteq stackToolIds("moderate")
        /\ returnsStack("moderate") /\ returnsStack("complex")
               => stackToolIds("moderate") \subseteq stackToolIds("complex")

\* the number of tools of the pool that pass the filter of the Balanced and of
\* the Premium stack
passBalanced == Len(SelectSeq(stackPool, LAMBDA t : isBalancedForUseCase(t, useCase)))

passFeatureRich == Len(SelectSeq(stackPool, LAMBDA t : isFeatureRichForUseCase(t, useCase)))

(***************************************************************************)
(* C26 as amended: every tool of the Essential stack passes the filter of  *)
(* the Balanced stack and every tool of the Balanced stack passes the      *)
(* filter of the Premium stack; when both stacks are returned, the         *)
(* Essential stack is within the Balanced stack if at most 5 tools of the  *)
(* pool pass the Balanced filter, and the Balanced stack is within the     *)
(* Premium stack if at most 7 tools of the pool pass the Premium filter.   *)
(***************************************************************************)
C26_NestedWhenUncut ==
    stacks.status = "resolved" =>
        /\ \A id \in stackToolIds("simple") : isBalancedForUseCase(toolById(id), useCase)
        /\ \A id \in stackToolIds("moderate") : isFeatureRichForUseCase(toolById(id), useCase)
        /\ returnsStack("simple") /\ returnsStack("moderate") /\ passBalanced <= 5
               => stackToolIds("simple") \subseteq stackToolIds("moderate")
        /\ returnsStack("moderate") /\ returnsStack("complex") /\ passFeatureRich <= 7
               => stackToolIds("moderate") \subseteq stackToolIds("complex")

\* three stacks, each within the next and smaller than it
C26_ThreeNested ==
    /\ stacks.status = "resolved"
    /\ returnsStack("simple") /\ returnsStack("moderate") /\ returnsStack("complex")
    /\ passBalanced <= 5 /\ passFeatureRich <= 7
    /\ stackToolIds("simple") # stackToolIds("moderate")
    /\ stackToolIds("moderate") # stackToolIds("complex")

\* more than 5 tools pass the Balanced filter and the Essential stack holds a
\* tool that the Balanced stack leaves out
C26_EssentialCutFromBalanced ==
    /\ stacks.status = "resolved"
    /\ returnsStack("simple") /\ returnsStack("moderate")
    /\ passBalanced > 5
    /\ ~(stackToolIds("simple") \subseteq stackToolIds("moderate"))

(***************************************************************************)
(* C25: for every tool and every profile, calculateToolROI returns         *)
(* investment.total > 0 and returns.total > 0, so roi.paybackPeriod is     *)
(* finite and positive and roi.percentage is the rounded                   *)
(* (returns - investment) / investment * 100, never the 0 of the guard     *)
(* for an investment of zero.                                              *)
(***************************************************************************)
C25_PositiveInvestmentAndReturns ==
    toolROI.status = "calculateToolROI" =>
        LET r == toolROI.value
        IN  /\ r.investment.total > 0
            /\ r.investment.total = r.investment.annual + r.investment.setup + r.investment.training
            /\ r.investment.setup > 0 /\ r.investment.training > 0
            /\ r.returns.total > 0
            /\ r.returns.timeSavings > 0
            /\ r.roi.paybackPeriod # Infinity
            /\ r.roi.paybackPeriod.den > 0 /\ r.roi.paybackPeriod.num > 0
            /\ r.roi.percentage =
                   Frac(roundTimes(r.returns.total - r.investment.total, r.investment.total, 4), 100)

\* the ROI of a tool whose pricing holds no price, for a solo user: the
\* investment is the setup and the training alone
C25_FreeToolSolo ==
    /\ toolROI.status = "calculateToolROI"
    /\ context.userProfile.teamSize = "solo"
    /\ toolROI.value.investment.monthly = 0
    /\ toolROI.value.investment.total = toolROI.value.investment.setup + toolROI.value.investment.training

\* the indexes of the search patterns whose expression the message matches
matchingPatterns == {i \in 1..Len(searchPatterns) : patternTest(searchPatterns[i], message)}

\* the indexes of the catalog entries that the filter of pattern i lets through
patternMatches(i) == {k \in 1..Len(catalog) : patternFilter(searchPatterns[i], catalog[k])}

(***************************************************************************)
(* C28: once no canned rule answers and the catalog is imported, the       *)
(* category is that of the first search pattern, in list order, whose      *)
(* expression matches the message.  When the catalog holds tools of it,    *)
(* they are the response; when it holds none, no later pattern is tried:   *)
(* the response is that of the general search if it is made and finds a    *)
(* tool, else the no-results message.                                      *)
(***************************************************************************)
C28_FirstPatternDecides ==
    (/\ response.status # "none"
     /\ cannedRule(messageLowerOf(message)) = ""
     /\ ~importFails
     /\ matchingPatterns # {}) =>
        LET first == CHOOSE i \in matchingPatterns : \A j \in matchingPatterns : i <= j
            r     == response.value
        IN  /\ patternMatches(first) # {} =>
                   /\ responseRule(r) = "category"
                   /\ r.context.category = searchPatterns[first].category
                   /\ r.content[2].tools = firstOf(patternMatches(first), 5)
            /\ patternMatches(first) = {} =>
                   /\ responseRule(r) \in {"search", "no results"}
                   /\ responseRule(r) = "search" <=> SearchRuleApplies
                   /\ responseRule(r) = "search" =>
                          r.content[2].tools = firstOf(searchMatches, 3)
                   /\ responseRule(r) = "no results" => r = noResultsResponse(message)

\* the first matching pattern finds no tool, a later matching pattern would find
\* one, and the answer is the no-results message
C28_LaterPatternNotTried ==
    /\ response.status # "none"
    /\ cannedRule(messageLowerOf(message)) = ""
    /\ ~importFails
    /\ \E i, j \in matchingPatterns :
           /\ i < j
           /\ \A h \in matchingPatterns : i <= h
           /\ patternMatches(i) = {}
           /\ patternMatches(j) # {}
    /\ response.value = noResultsResponse(message)

\* the first matching pattern finds no tool and the general search answers
C28_FallsToSearch ==
    /\ response.status # "none"
    /\ cannedRule(messageLowerOf(message)) = ""
    /\ ~importFails
    /\ matchingPatterns # {}
    /\ \A i \in matchingPatterns : patternMatches(i) = {}
    /\ responseRule(response.value) = "search"
    /\ Len(response.value.content[2].tools) >= 1

(***************************************************************************)
(* C22.  Where start() throws on a recognizer that is already running,     *)
(* after any sequence of startListening, stopListening, end events and     *)
(* error events, getListeningState() is true whenever the recognizer is    *)
(* running, so that stopListening stops a running recognizer.              *)
(***************************************************************************)
C22_ListeningWhileRunning ==
    recognition = "running" => isListening /\ stopListeningStops(voiceSearchManager)

\* startListening was called on a running recognizer, which still runs
C22_StartedTwice ==
    /\ handled.handler = "startListening" /\ handled.threw
    /\ recognition = "running"

(***************************************************************************)
(* C30.  startListening in a browser without speech recognition, or where  *)
(* start() throws, leaves getListeningState() false, invokes the onError   *)
(* it was given exactly once and does not invoke onResult; after every     *)
(* error event and every end event getListeningState() is false.           *)
(***************************************************************************)
C30_FailedStartReported ==
    /\ handled.handler = "startListening" /\ (~isSupported \/ handled.threw)
       => /\ ~isListening
          /\ IF handled.arguments[2] = NoCallback THEN invoked = <<>>
             ELSE Len(invoked) = 1 /\ invoked[1].callback = handled.arguments[2]
    /\ handled.handler \in {"onerror", "onend"} => ~isListening

\* start() threw in a startListening that was given an onError
C30_StartThrew ==
    /\ handled.handler = "startListening" /\ handled.threw
    /\ handled.arguments[2] # NoCallback

\* startListening was given an onError in a browser without speech recognition
C30_NotSupported ==
    /\ handled.handler = "startListening" /\ ~isSupported
    /\ handled.arguments[2] # NoCallback

(***************************************************************************)
(* C23.  After a submit of the login page the router navigates to '/'      *)
(* only if login reported success; when login resolves with success false  *)
(* nothing is pushed and the error list is ['Invalid email or password'].  *)
(***************************************************************************)
C23_NavigatesOnSuccessOnly ==
    submitted.status = "handleSubmit" =>
        /\ submitted.value.pushed # <<>> => submitted.value.login.fields.success
        /\ ~submitted.value.login.fields.success
           => /\ submitted.value.pushed = <<>>
              /\ errors = <<<<"I", "n", "v", "a", "l", "i", "d", " ", "e", "m", "a", "i", "l", " ", "o", "r", " ", "p", "a", "s", "s", "w", "o", "r", "d">>>>

\* login resolved with success false and the router was pushed to '/'
C23_NavigatedAfterFailure ==
    /\ submitted.status = "handleSubmit"
    /\ ~submitted.value.login.fields.success
    /\ submitted.value.pushed = <<<<"/">>>>
    /\ route = <<"/">> /\ user = Null /\ errors = <<>>

(***************************************************************************)
(* C29.  For every ExpertProfile with a rating from 0 to 5 and no negative *)
(* years of experience, review count or certification count, verifyExpert  *)
(* returns a confidence from 0 to 1, verified is true exactly when the     *)
(* verificationLevel is 'advanced' or 'premium', and the badge 'Verified   *)
(* Expert' is there exactly when the level is 'premium'.                   *)
(***************************************************************************)
C29_ConfidenceAndLevelAgree ==
    verification.status = "resolved" =>
        LET result == verification.value
        IN  /\ atLeast(result.confidence, positive(Double0))
            /\ atLeast(positive(Double1), result.confidence)
            /\ result.verified <=> result.verificationLevel \in {<<"a", "d", "v", "a", "n", "c", "e", "d">>, <<"p", "r", "e", "m", "i", "u", "m">>}
            /\ <<"V", "e", "r", "i", "f", "i", "e", "d", " ", "E", "x", "p", "e", "r", "t">> \in Range(result.badges)
               <=> result.verificationLevel = <<"p", "r", "e", "m", "i", "u", "m">>

\* a profile with no experience, certification, review or link, rated 0: -1.5
C29_NegativeConfidence ==
    /\ verification.status = "resolved"
    /\ expertProfile.rating = 0 /\ expertProfile.yearsOfExperience = 0
    /\ expertProfile.reviews = 0 /\ expertProfile.certifications = <<>>
    /\ socialLinkCount(expertProfile) = 0
    /\ verification.value.confidence = Signed(TRUE, <<0, 0, 0, 6144>>)

\* verified and level agree, and the badge and the level, whatever the confidence
C29_LevelAndBadgeAgree ==
    verification.status = "resolved" =>
        LET result == verification.value
        IN  /\ result.verified <=> result.verificationLevel \in {<<"a", "d", "v", "a", "n", "c", "e", "d">>, <<"p", "r", "e", "m", "i", "u", "m">>}
            /\ <<"V", "e", "r", "i", "f", "i", "e", "d", " ", "E", "x", "p", "e", "r", "t">> \in Range(result.badges)
               <=> result.verificationLevel = <<"p", "r", "e", "m", "i", "u", "m">>

\* the positions of the messages of a sender that send number k appended
appendedBy(sender, k) ==
    {i \in 1..Len(messages) : messages[i].sender = sender /\ messages[i].send = k}

\* the sends in flight are the sends that have no answer yet
awaited(k) == \E i \in 1..Len(inFlight) : inFlight[i].send = k

\* a handler of a send ran in the step
sendHandled == HandleSendMessage \/ HandleSubmitChat

(***************************************************************************)
(* C24.  The chat has at most one request in flight.  A send changes       *)
(* nothing when the trimmed input is empty or isLoading is true.  Every    *)
(* accepted send appends exactly one user message and then exactly one     *)
(* assistant message, and no second user message comes between a user      *)
(* message and its reply, whatever the order of the events.                *)
(***************************************************************************)
C24_OneRequestInFlight ==
    /\ [](/\ Len(inFlight) <= 1
          /\ \A k \in 1..sends :
                 /\ Cardinality(appendedBy("user", k)) = 1
                 /\ Cardinality(appendedBy("assistant", k)) = (IF awaited(k) THEN 0 ELSE 1)
                 /\ \A u \in appendedBy("user", k), a \in appendedBy("assistant", k) : u < a
          /\ \A i, j \in 1..Len(messages) :
                 i < j /\ messages[i].sender = "user" /\ messages[j].sender = "user"
                 => \E a \in appendedBy("assistant", messages[i].send) : i < a /\ a < j)
    /\ [][sendHandled /\ (trim(inputValue) = <<>> \/ isLoading) => UNCHANGED chatVars]_vars

\* a send was refused while the answer of the send before it was awaited, and
\* the chat went on to a second send that was answered
C24_SecondSendAnswered ==
    /\ sends = 2 /\ inFlight = <<>>
    /\ Cardinality(appendedBy("assistant", 2)) = 1

\* a send is in flight, the input holds a text again and a send can be tried
C24_InputWhileLoading ==
    isLoading /\ inFlight # <<>> /\ trim(inputValue) # <<>> /\ sends < MaxSends

\* the catalog was not loaded: the step that tried to load it
importFailed == importFails /\ imports' # imports

\* the apology of the component
apologyOf(mounted, send) ==
    IF mounted = "AIAssistantButton"
    THEN Message("assistant", errorResponse.content, send)
    ELSE premiumAnswer("apology", 300, <<>>, send)

(***************************************************************************)
(* C21.  When the catalog cannot be loaded while a chat message is         *)
(* processed, the chat does not try again: the catalog is asked for once,  *)
(* exactly one assistant message is appended, which is the apology, and    *)
(* the loading flag is false again.                                        *)
(***************************************************************************)
C21_ApologyOnce ==
    [][importFailed
       => /\ imports' = imports + 1
          /\ \E i \in 1..Len(inFlight) :
                 messages' = Append(messages, apologyOf(component, inFlight[i].send))
          /\ ~isLoading'
          /\ inFlight' = <<>>]_vars

\* the catalog was asked for once, it failed, and the last message is the apology
C21_Apologized ==
    /\ importFails /\ imports = 1 /\ sends = 1 /\ ~isLoading
    /\ messages[Len(messages)] = apologyOf(component, 1)
====
